---- MODULE Spec2Model ----
(***************************************************************************)
(* Scheduling and state-transition engine of PrathamStrictBot              *)
(* (src/index.js, final iteration, lines 222-869): the quota ledger, the   *)
(* reminder sweep, the feedback (angry-check) sweep, the daily aggregator  *)
(* and the daily reset, for one user row of the relational store.          *)
(*                                                                         *)
(* Time is counted in minutes since the epoch (toISOString().slice(11,16)  *)
(* drops seconds).  A calendar date is its day number: the ISO date string *)
(* the code builds is an order-preserving encoding of it, and the code     *)
(* only compares dates for equality and order.  A time of day "HH:MM" is   *)
(* the pair <<HH, MM>>.  Every pool.query is one autocommitted statement,  *)
(* so one statement is one atomic step; a handler is a sequence of such    *)
(* steps and handlers of concurrent requests interleave between them.      *)
(* The store is assumed to return date columns as the date keys the code   *)
(* compares them with (db.js and the schema are not part of the sources).  *)
(***************************************************************************)
EXTENDS Integers, Sequences, FiniteSets, TLC

(* ------------------------------ bounds -------------------------------- *)

\* concurrent handler instances of one endpoint (overlapping invocations)
NumSweepers == 2
\* concurrent reserveAIQuota calls of the quota scenario
NumCalls == 25
\* last calendar day the clock may reach (the clock starts on day 1)
MaxDay == 3
\* "doing" replies the user sends between two ticks of the clock
MaxReplies == 3

(* ------------------------- program constants -------------------------- *)

AI_DAILY_LIMIT == 20
\* if (stuck_count >= 5) return false
STUCK_LIMIT == 5
\* h * 60 + m, HH in 00..23
MinutesPerHour == 60
HoursPerDay == 24
MinutesPerDay == HoursPerDay * MinutesPerHour
\* SQL NULL of a date column / `null` of lastSuccessDate, lastSummaryDate
NullDate == -1

VARIABLES
    now,            \* new Date().getTime(), in minutes
    serverOffset,   \* now.getTimezoneOffset() of the server process, minutes
    users,          \* the user's row of table users
    tasks,          \* table tasks: task id -> row
    user_stats,     \* the user's row of table user_stats, or NoStats
    calls,          \* reserveAIQuota calls in flight: pending / succeeded / failed
    start,          \* the quota row and date when the calls were issued
    remPc, remLoc,  \* POST /cron/task-reminders handler instances
    fbPc, fbLoc,    \* POST /cron/angry-check handler instances
    aggPc, aggLoc,  \* POST /cron/daily-summary handler instances
    stuckPc, stuckLoc,  \* POST /webhook "/stuck" handler instances
    cron,           \* the cron request at the route guard and its loop over users.rows
    user_events,    \* table user_events: the (event_type, event_date) rows of the user
    evPc, evLoc,    \* POST /cron/morning-start and /cron/plan-reminder handler instances
    doingLoc,       \* POST /webhook "doing ..." handler instances
    outbox,         \* what sendMessage delivered, counted per kind and subject
    audit           \* per task / per date counts of the durable transitions made

vars == <<now, serverOffset, users, tasks, user_stats, calls, start,
          remPc, remLoc, fbPc, fbLoc, aggPc, aggLoc, stuckPc, stuckLoc, cron,
          user_events, evPc, evLoc, doingLoc, outbox, audit>>

Sweepers == 1..NumSweepers

(* ------------------------ Local-Time Resolver ------------------------- *)

\* utc + timezoneOffset * 60000, with utc = now.getTime() + now.getTimezoneOffset() * 60000
shiftedInstant(t, srv, off) == t + srv + off

\* userTime.toISOString().split("T")[0]
isoDate(t) == t \div MinutesPerDay

\* userTime.toISOString().slice(11, 16): "HH:MM"
isoHHMM(t) == << (t % MinutesPerDay) \div MinutesPerHour, t % MinutesPerHour >>

getUserDate(timezoneOffset) == isoDate(shiftedInstant(now, serverOffset, timezoneOffset))

getUserTime(timezoneOffset) == isoHHMM(shiftedInstant(now, serverOffset, timezoneOffset))

\* const [h, m] = t.split(':').map(Number); return h * 60 + m
hhmmMinutes(t) == t[1] * MinutesPerHour + t[2]

getUserMinutes(timezoneOffset) == hhmmMinutes(getUserTime(timezoneOffset))

\* getDatePlusDays(baseDate, days), server process in UTC
getDatePlusDays(baseDate, days) == baseDate + days

(* ---------------------------- Quota Ledger ---------------------------- *)

\* a variant of reserveMatches: the limit test off by one (<= for <)
reserveMatchesOffByOne(row, today) ==
    row.ai_reset_date # today \/ row.ai_calls_today <= AI_DAILY_LIMIT

\* WHERE id = $2 AND (ai_reset_date IS DISTINCT FROM $1 OR ai_calls_today < $3)
reserveMatches(row, today) ==
    row.ai_reset_date # today \/ row.ai_calls_today < AI_DAILY_LIMIT

\* a variant of reserveUpdate: the CASE is dropped, the counter is never reset
reserveUpdateNoReset(row, today) ==
    [row EXCEPT !.ai_calls_today = row.ai_calls_today + 1, !.ai_reset_date = today]

\* SET ai_calls_today = CASE WHEN ai_reset_date IS DISTINCT FROM $1 THEN 1
\*                           ELSE ai_calls_today + 1 END, ai_reset_date = $1
reserveUpdate(row, today) ==
    [row EXCEPT !.ai_calls_today =
                    IF row.ai_reset_date # today THEN 1 ELSE row.ai_calls_today + 1,
                !.ai_reset_date = today]

\* a variant of reserveAIQuotaRow without the WHERE condition on the counter
reserveAIQuotaRowAlways(row, timezoneOffset) ==
    reserveUpdate(row, getUserDate(timezoneOffset))

\* the users row after reserveAIQuota(userId, timezoneOffset)
reserveAIQuotaRow(row, timezoneOffset) ==
    LET today == getUserDate(timezoneOffset)
    IN  IF reserveMatches(row, today) THEN reserveUpdate(row, today) ELSE row

\* return result.rowCount > 0
reserveAIQuotaOk(row, timezoneOffset) == reserveMatches(row, getUserDate(timezoneOffset))

\* a variant of rollbackAIQuotaRow that leaves the counter as it is
rollbackKeepsCount(row) == row

\* a variant of rollbackAIQuotaRow without GREATEST
rollbackBelowZero(row) ==
    [row EXCEPT !.ai_calls_today = row.ai_calls_today - 1]

\* UPDATE users SET ai_calls_today = GREATEST(0, ai_calls_today - 1)
rollbackAIQuotaRow(row) ==
    [row EXCEPT !.ai_calls_today =
                    IF row.ai_calls_today - 1 > 0 THEN row.ai_calls_today - 1 ELSE 0]

(* ------------------------------- texts -------------------------------- *)

\* a text is the sequence of its characters
StudyGo == << "S", "t", "u", "d", "y", " ", "G", "o" >>
GoStudy == << "g", "o", " ", "s", "t", "u", "d", "y" >>
WatchingTv == << "t", "v" >>
Understudy == << "u", "n", "d", "e", "r", "s", "t", "u", "d", "y" >>

TaskNames == { StudyGo }
Responses == { GoStudy, WatchingTv, Understudy }

\* String.prototype.toLowerCase on the characters in use
lowerChar(c) ==
    CASE c = "S" -> "s"
      [] c = "G" -> "g"
      [] c = "T" -> "t"
      [] OTHER -> c

toLowerCase(s) == [k \in DOMAIN s |-> lowerChar(s[k])]

\* s.split(" "): the pieces between single blanks
RECURSIVE splitFrom(_, _, _)
splitFrom(s, k, word) ==
    IF k > Len(s) THEN << word >>
    ELSE IF s[k] = " " THEN << word >> \o splitFrom(s, k + 1, << >>)
    ELSE splitFrom(s, k + 1, Append(word, s[k]))

split(s) == splitFrom(s, 1, << >>)

\* hay.includes(needle): needle occurs as a substring
includes(hay, needle) ==
    \E k \in 0..(Len(hay) - Len(needle)) :
        \A j \in 1..Len(needle) : hay[k + j] = needle[j]

\* user_response is NULL, or the text of the reply
NullResponse == [isNull |-> TRUE, text |-> << >>]
ResponseOf(text) == [isNull |-> FALSE, text |-> text]

\* (row.user_response || "").toLowerCase()
responseLower(user_response) ==
    IF user_response.isNull THEN << >> ELSE toLowerCase(user_response.text)

\* row.task_name.toLowerCase().split(" ").filter(w => w.length > 2)
taskWords(task_name) ==
    LET ws == split(toLowerCase(task_name))
    IN  { ws[k] : k \in { j \in DOMAIN ws : Len(ws[j]) > 2 } }

\* taskWords.some(w => response.includes(w))
isDoingTask(task_name, user_response) ==
    \E w \in taskWords(task_name) : includes(responseLower(user_response), w)

\* if (row.user_response && isDoingTask): praise, else scold
praiseBranch(task_name, user_response) ==
    /\ ~user_response.isNull
    /\ Len(user_response.text) > 0
    /\ isDoingTask(task_name, user_response)

(* ------------------------------ the store ----------------------------- *)

\* rows of table tasks
NumTasks == 3
TaskIds == 1..NumTasks
Dates == 0..(MaxDay + 1)

NoStats == [exists |-> FALSE, current_streak |-> 0, longest_streak |-> 0,
            last_success_date |-> NullDate, last_summary_date |-> NullDate]

\* INSERT INTO tasks (user_id, task_date, task_time, task_name): the other
\* columns take their defaults
NewTask(date, time, name) ==
    [task_date |-> date, task_time |-> time, task_name |-> name,
     reminder_sent |-> FALSE, user_response |-> NullResponse,
     praised |-> FALSE, scolded |-> FALSE]

\* INSERT INTO users (chat_id, timezone_offset) VALUES ($1, 0)
NewUser ==
    [timezone_offset |-> 0, ai_calls_today |-> 0, ai_reset_date |-> NullDate,
     stuck_count |-> 0, stuck_reset_date |-> NullDate]

\* EXTRACT(HOUR FROM task_time::time)*60 + EXTRACT(MINUTE FROM task_time::time)
taskMinutes(t) == hhmmMinutes(tasks[t].task_time)

ZeroPer(S) == [x \in S |-> 0]

\* event_type of the once-per-day events
EventTypes == { "morning_start", "plan_reminder" }

NoOutbox == [reminders |-> ZeroPer(TaskIds), feedback |-> ZeroPer(TaskIds),
             summaries |-> ZeroPer(Dates),
             events |-> [ty \in EventTypes |-> ZeroPer(Dates)],
             noted |-> 0, noMatch |-> 0]

NoAudit == [claims |-> ZeroPer(TaskIds), terminal |-> ZeroPer(TaskIds),
            reserves |-> ZeroPer(TaskIds), aggWrites |-> ZeroPer(Dates),
            gated |-> [d \in Dates |-> FALSE],
            stuckPassed |-> 0, quotaReserved |-> 0, quotaRolledBack |-> 0,
            sends |-> ZeroPer(TaskIds), genFailed |-> ZeroPer(TaskIds),
            rollbacks |-> ZeroPer(TaskIds), skipped |-> [d \in Dates |-> FALSE],
            crashed |-> [d \in Dates |-> FALSE], replies |-> 0,
            held |-> ZeroPer(Dates), generated |-> ZeroPer(Dates),
            eventReserves |-> [ty \in EventTypes |-> ZeroPer(Dates)]]

Bump(f, x) == [f EXCEPT ![x] = @ + 1]

(* ------------------------------ the clock ----------------------------- *)

At(day, hh, mm) == day * MinutesPerDay + hh * MinutesPerHour + mm

\* the clock moves to the next of the instants P at which something is observed
TickIn(P) ==
    /\ \E t \in P : t > now
    /\ now' = CHOOSE t \in P : t > now /\ \A u \in P : u > now => t <= u

(* ---------------------- quota scenario (reserve) ---------------------- *)

NoCalls == [pending |-> 0, inflight |-> 0, succeeded |-> 0, failed |-> 0]

\* a caller enters reserveAIQuota: const today = getUserDate(timezoneOffset)
ReserveIssue ==
    /\ calls.pending > 0
    /\ calls' = [calls EXCEPT !.pending = @ - 1, !.inflight = @ + 1]
    /\ UNCHANGED <<doingLoc, user_events, evPc, evLoc, stuckPc, stuckLoc, cron, now, serverOffset, users, tasks, user_stats, start,
                   remPc, remLoc, fbPc, fbLoc, aggPc, aggLoc, outbox, audit>>

\* the store runs the UPDATE of one call in flight: a single statement
ReserveCall ==
    /\ calls.inflight > 0
    /\ users' = reserveAIQuotaRow(users, users.timezone_offset)
    /\ calls' = IF reserveAIQuotaOk(users, users.timezone_offset)
                THEN [calls EXCEPT !.inflight = @ - 1, !.succeeded = @ + 1]
                ELSE [calls EXCEPT !.inflight = @ - 1, !.failed = @ + 1]
    /\ UNCHANGED <<doingLoc, user_events, evPc, evLoc, stuckPc, stuckLoc, cron, now, serverOffset, tasks, user_stats, start,
                   remPc, remLoc, fbPc, fbLoc, aggPc, aggLoc, outbox, audit>>

(* ------------------- POST /cron/task-reminders ------------------------ *)

RemIdle == [offset |-> 0, userDate |-> NullDate, rows |-> {}]

\* a variant of reminderDue: the test reminder_sent = false is left out
reminderDueAgain(userDate, lo, hi) ==
    { t \in TaskIds : /\ tasks[t].task_date = userDate
                      /\ taskMinutes(t) >= lo
                      /\ taskMinutes(t) <= hi }

\* SELECT id FROM tasks WHERE user_id = $1 AND task_date = $2 AND reminder_sent = false
\*   AND (minutes of task_time) BETWEEN $3 AND $4   FOR UPDATE SKIP LOCKED
reminderDue(userDate, lo, hi) ==
    { t \in TaskIds : /\ tasks[t].task_date = userDate
                      /\ tasks[t].reminder_sent = FALSE
                      /\ taskMinutes(t) >= lo
                      /\ taskMinutes(t) <= hi }

\* the bounds [userMinutes - 2, userMinutes + 3] passed as $3 and $4
reminderLow(userMinutes) == userMinutes - 2
reminderHigh(userMinutes) == userMinutes + 3

\* SELECT id, chat_id, timezone_offset FROM users
RemBegin(i) ==
    /\ remPc[i] = "idle"
    /\ remPc' = [remPc EXCEPT ![i] = "claim"]
    /\ remLoc' = [remLoc EXCEPT ![i] = [RemIdle EXCEPT !.offset = users.timezone_offset]]
    /\ UNCHANGED <<doingLoc, user_events, evPc, evLoc, stuckPc, stuckLoc, cron, now, serverOffset, users, tasks, user_stats, calls, start,
                   fbPc, fbLoc, aggPc, aggLoc, outbox, audit>>

\* userDate, userMinutes, then UPDATE tasks SET reminder_sent = true WHERE id IN (...)
\* RETURNING id, task_time, task_name: one statement, the rows it changed
RemClaim(i) ==
    /\ remPc[i] = "claim"
    /\ LET userDate == getUserDate(remLoc[i].offset)
           userMinutes == getUserMinutes(remLoc[i].offset)
           rows == reminderDue(userDate, reminderLow(userMinutes), reminderHigh(userMinutes))
       IN  /\ tasks' = [t \in TaskIds |->
                           IF t \in rows THEN [tasks[t] EXCEPT !.reminder_sent = TRUE]
                                         ELSE tasks[t]]
           /\ remLoc' = [remLoc EXCEPT ![i] =
                            IF rows = {} THEN RemIdle
                            ELSE [@ EXCEPT !.userDate = userDate, !.rows = rows]]
           /\ audit' = [audit EXCEPT !.claims =
                           [t \in TaskIds |-> IF t \in rows THEN @[t] + 1 ELSE @[t]]]
           /\ remPc' = [remPc EXCEPT ![i] = IF rows = {} THEN "idle" ELSE "send"]
    /\ UNCHANGED <<doingLoc, user_events, evPc, evLoc, stuckPc, stuckLoc, cron, now, serverOffset, users, user_stats, calls, start,
                   fbPc, fbLoc, aggPc, aggLoc, outbox>>

\* The same two lines with their two clock readings taken apart (each of
\* getUserDate and getUserMinutes calls new Date()):
\* const userDate = getUserDate(user.timezone_offset)
RemReadDate(i) ==
    /\ remPc[i] = "claim"
    /\ remPc' = [remPc EXCEPT ![i] = "minutes"]
    /\ remLoc' = [remLoc EXCEPT ![i].userDate = getUserDate(remLoc[i].offset)]
    /\ UNCHANGED <<doingLoc, user_events, evPc, evLoc, stuckPc, stuckLoc, cron, now, serverOffset, users, tasks, user_stats, calls, start,
                   fbPc, fbLoc, aggPc, aggLoc, outbox, audit>>

\* const userMinutes = getUserMinutes(user.timezone_offset), then the UPDATE
\* with the userDate read before
RemClaimMinutes(i) ==
    /\ remPc[i] = "minutes"
    /\ LET userMinutes == getUserMinutes(remLoc[i].offset)
           rows == reminderDue(remLoc[i].userDate,
                               reminderLow(userMinutes), reminderHigh(userMinutes))
       IN  /\ tasks' = [t \in TaskIds |->
                           IF t \in rows THEN [tasks[t] EXCEPT !.reminder_sent = TRUE]
                                         ELSE tasks[t]]
           /\ remLoc' = [remLoc EXCEPT ![i] = IF rows = {} THEN RemIdle
                                              ELSE [@ EXCEPT !.rows = rows]]
           /\ audit' = [audit EXCEPT !.claims =
                           [t \in TaskIds |-> IF t \in rows THEN @[t] + 1 ELSE @[t]]]
           /\ remPc' = [remPc EXCEPT ![i] = IF rows = {} THEN "idle" ELSE "send"]
    /\ UNCHANGED <<doingLoc, user_events, evPc, evLoc, stuckPc, stuckLoc, cron, now, serverOffset, users, user_stats, calls, start,
                   fbPc, fbLoc, aggPc, aggLoc, outbox>>

\* for (const task of result.rows) await sendMessage(...): the message is delivered
RemSend(i) ==
    /\ remPc[i] = "send"
    /\ \E t \in remLoc[i].rows :
          /\ outbox' = [outbox EXCEPT !.reminders = Bump(@, t)]
          /\ audit' = [audit EXCEPT !.sends = Bump(@, t)]
          /\ remLoc' = [remLoc EXCEPT ![i] =
                           IF remLoc[i].rows = {t} THEN RemIdle ELSE [@ EXCEPT !.rows = @ \ {t}]]
          /\ remPc' = [remPc EXCEPT ![i] = IF remLoc[i].rows = {t} THEN "idle" ELSE "send"]
    /\ UNCHANGED <<doingLoc, user_events, evPc, evLoc, stuckPc, stuckLoc, cron, now, serverOffset, users, tasks, user_stats, calls, start,
                   fbPc, fbLoc, aggPc, aggLoc>>

\* sendMessage for one of the rows throws: caught by the per-user catch, the
\* loop over result.rows is left and the rest of the rows is dropped
RemSendFails(i) ==
    /\ remPc[i] = "send"
    /\ \E t \in remLoc[i].rows : audit' = [audit EXCEPT !.sends = Bump(@, t)]
    /\ remLoc' = [remLoc EXCEPT ![i] = RemIdle]
    /\ remPc' = [remPc EXCEPT ![i] = "idle"]
    /\ UNCHANGED <<doingLoc, user_events, evPc, evLoc, stuckPc, stuckLoc, cron, now, serverOffset, users, tasks, user_stats, calls, start,
                   fbPc, fbLoc, aggPc, aggLoc, outbox>>

(* ----------------------- POST /cron/daily-reset ----------------------- *)

\* UPDATE tasks SET reminder_sent=false, praised=false, scolded=false,
\*   user_response=NULL, responded_at=NULL WHERE user_id=$1 AND task_date < $2
resetRow(row) ==
    [row EXCEPT !.reminder_sent = FALSE, !.praised = FALSE, !.scolded = FALSE,
                !.user_response = NullResponse]

\* a variant of dailyResetRows: the rows of userDate itself are reset as well
dailyResetRowsToday(rows, userDate) ==
    [t \in TaskIds |-> IF rows[t].task_date <= userDate THEN resetRow(rows[t]) ELSE rows[t]]

dailyResetRows(rows, userDate) ==
    [t \in TaskIds |-> IF rows[t].task_date < userDate THEN resetRow(rows[t]) ELSE rows[t]]

\* const userDate = getUserDate(user.timezone_offset), then the UPDATE
DailyReset ==
    /\ tasks' = dailyResetRows(tasks, getUserDate(users.timezone_offset))
    /\ UNCHANGED <<doingLoc, user_events, evPc, evLoc, stuckPc, stuckLoc, cron, now, serverOffset, users, user_stats, calls, start,
                   remPc, remLoc, fbPc, fbLoc, aggPc, aggLoc, outbox, audit>>

(* --------------------- POST /webhook: "doing ..." --------------------- *)

\* lexicographic order of "HH:MM" strings
timeLE(a, b) == a[1] < b[1] \/ (a[1] = b[1] /\ a[2] <= b[2])

\* SELECT id FROM tasks WHERE user_id = $2 AND task_date = $3 AND task_time <= $4
\*   AND user_response IS NULL ORDER BY task_time DESC LIMIT 1
doingCandidates(userDate, nowTime) ==
    { t \in TaskIds : /\ tasks[t].task_date = userDate
                      /\ timeLE(tasks[t].task_time, nowTime)
                      /\ tasks[t].user_response.isNull }

doingTargets(userDate, nowTime) ==
    { t \in doingCandidates(userDate, nowTime) :
        \A u \in doingCandidates(userDate, nowTime) :
            timeLE(tasks[u].task_time, tasks[t].task_time) }

\* UPDATE tasks SET user_response = $1, responded_at = NOW() WHERE id = (...)
Doing(response) ==
    /\ \E t \in doingTargets(getUserDate(users.timezone_offset),
                             getUserTime(users.timezone_offset)) :
          tasks' = [tasks EXCEPT ![t].user_response = ResponseOf(response)]
    /\ UNCHANGED <<doingLoc, user_events, evPc, evLoc, stuckPc, stuckLoc, cron, now, serverOffset, users, user_stats, calls, start,
                   remPc, remLoc, fbPc, fbLoc, aggPc, aggLoc, outbox, audit>>

\* The same handler with its one statement taken apart, for replies that
\* overlap: the sub-select is evaluated on the statement's snapshot and has no
\* FOR UPDATE, and the outer UPDATE tests only id = (its result), so a reply
\* that waits for a concurrent one to commit still writes the row it chose.
DoingIdle == [busy |-> FALSE, id |-> 0, response |-> NullResponse]

\* the sub-select: SELECT id FROM tasks WHERE ... AND user_response IS NULL
\*   ORDER BY task_time DESC LIMIT 1 (no row: id 0)
DoingSelect(i, response) ==
    /\ ~doingLoc[i].busy
    /\ audit.replies < MaxReplies
    /\ LET targets == doingTargets(getUserDate(users.timezone_offset),
                                   getUserTime(users.timezone_offset))
       IN  \E t \in (IF targets = {} THEN {0} ELSE targets) :
              doingLoc' = [doingLoc EXCEPT ![i] =
                              [busy |-> TRUE, id |-> t, response |-> ResponseOf(response)]]
    /\ audit' = [audit EXCEPT !.replies = @ + 1]
    /\ UNCHANGED <<user_events, evPc, evLoc, stuckPc, stuckLoc, cron, now, serverOffset, users, tasks, user_stats, calls, start,
                   remPc, remLoc, fbPc, fbLoc, aggPc, aggLoc, outbox>>

\* UPDATE tasks SET user_response = $1, responded_at = NOW() WHERE id = (...)
\* RETURNING id, then sendMessage(rowCount === 0 ? "No matching task" : "Noted")
DoingUpdate(i) ==
    /\ doingLoc[i].busy
    /\ IF doingLoc[i].id = 0
       THEN /\ tasks' = tasks
            /\ outbox' = [outbox EXCEPT !.noMatch = @ + 1]
       ELSE /\ tasks' = [tasks EXCEPT ![doingLoc[i].id].user_response = doingLoc[i].response]
            /\ outbox' = [outbox EXCEPT !.noted = @ + 1]
    /\ doingLoc' = [doingLoc EXCEPT ![i] = DoingIdle]
    /\ UNCHANGED <<user_events, evPc, evLoc, stuckPc, stuckLoc, cron, now, serverOffset, users, user_stats, calls, start,
                   remPc, remLoc, fbPc, fbLoc, aggPc, aggLoc, audit>>

(* --------------------- POST /webhook: "edit ..." ---------------------- *)

\* getActiveDate: tomorrow's date from 18:00 local time on, else today's
getActiveDate(offset) ==
    IF getUserMinutes(offset) >= 18 * MinutesPerHour
    THEN getDatePlusDays(getUserDate(offset), 1)
    ELSE getUserDate(offset)

\* a variant of the edit that writes the row as a newly inserted one
editRowAsNew(row, time, name) ==
    NewTask(row.task_date, time, name)

\* UPDATE tasks SET task_time = $1, task_name = $2 WHERE id = $3
editRow(row, time, name) ==
    [row EXCEPT !.task_time = time, !.task_name = name]

\* edit <number> <time> <task>: the numbered task of the active date's plan
Edit(t, time, name) ==
    /\ tasks[t].task_date = getActiveDate(users.timezone_offset)
    /\ tasks' = [tasks EXCEPT ![t] = editRow(tasks[t], time, name)]
    /\ UNCHANGED <<doingLoc, user_events, evPc, evLoc, stuckPc, stuckLoc, cron, now, serverOffset, users, user_stats, calls, start,
                   remPc, remLoc, fbPc, fbLoc, aggPc, aggLoc, outbox, audit>>

(* ---------------------- POST /cron/angry-check ------------------------ *)

NoRow == [id |-> 0, task_name |-> << >>, user_response |-> NullResponse]
FbIdle == [offset |-> 0, userDate |-> NullDate, rows |-> {}, row |-> NoRow]

\* a variant: the upper bound is one minute nearer to the current minute
feedbackHighNear(userMinutes) == userMinutes - 2

\* the bounds [userMinutes - 25, userMinutes - 3] passed as $3 and $4
feedbackLow(userMinutes) == userMinutes - 25
feedbackHigh(userMinutes) == userMinutes - 3

\* SELECT t.id, t.task_name, t.user_response FROM tasks t WHERE t.user_id = $1
\*   AND t.task_date = $2 AND t.praised = false AND t.scolded = false
\*   AND t.reminder_sent = true AND (minutes of task_time) BETWEEN $3 AND $4
feedbackDue(userDate, lo, hi) ==
    { t \in TaskIds : /\ tasks[t].task_date = userDate
                      /\ tasks[t].praised = FALSE
                      /\ tasks[t].scolded = FALSE
                      /\ tasks[t].reminder_sent = TRUE
                      /\ taskMinutes(t) >= lo
                      /\ taskMinutes(t) <= hi }

feedbackRows(userDate, userMinutes) ==
    { [id |-> t, task_name |-> tasks[t].task_name, user_response |-> tasks[t].user_response] :
        t \in feedbackDue(userDate, feedbackLow(userMinutes), feedbackHigh(userMinutes)) }

\* a variant of setScolded: the row is left as it is
setScoldedSkipped(id) == tasks

\* UPDATE tasks SET scolded = true WHERE id = $1
setScolded(id) == [tasks EXCEPT ![id].scolded = TRUE]

\* UPDATE tasks SET praised = true WHERE id = $1
setPraised(id) == [tasks EXCEPT ![id].praised = TRUE]

\* the loop `for (const row of result.rows)` moves on to the next row, or ends
FbNext(i) ==
    /\ fbPc' = [fbPc EXCEPT ![i] = IF fbLoc[i].rows = {} THEN "idle" ELSE "reserve"]
    /\ fbLoc' = [fbLoc EXCEPT ![i] = IF fbLoc[i].rows = {} THEN FbIdle ELSE [@ EXCEPT !.row = NoRow]]

\* SELECT id, chat_id, timezone_offset FROM users
FbBegin(i) ==
    /\ fbPc[i] = "idle"
    /\ fbPc' = [fbPc EXCEPT ![i] = "select"]
    /\ fbLoc' = [fbLoc EXCEPT ![i] = [FbIdle EXCEPT !.offset = users.timezone_offset]]
    /\ UNCHANGED <<doingLoc, user_events, evPc, evLoc, stuckPc, stuckLoc, cron, now, serverOffset, users, tasks, user_stats, calls, start,
                   remPc, remLoc, aggPc, aggLoc, outbox, audit>>

\* userDate, userMinutes and the SELECT of the tasks to evaluate
FbSelect(i) ==
    /\ fbPc[i] = "select"
    /\ LET userDate == getUserDate(fbLoc[i].offset)
           rows == feedbackRows(userDate, getUserMinutes(fbLoc[i].offset))
       IN  /\ fbLoc' = [fbLoc EXCEPT ![i] =
                           IF rows = {} THEN FbIdle
                           ELSE [@ EXCEPT !.userDate = userDate, !.rows = rows]]
           /\ fbPc' = [fbPc EXCEPT ![i] = IF rows = {} THEN "idle" ELSE "reserve"]
    /\ UNCHANGED <<doingLoc, user_events, evPc, evLoc, stuckPc, stuckLoc, cron, now, serverOffset, users, tasks, user_stats, calls, start,
                   remPc, remLoc, aggPc, aggLoc, outbox, audit>>

\* the next row of the loop: if (!(await reserveAIQuota(user.id, user.timezone_offset)))
FbReserve(i) ==
    /\ fbPc[i] = "reserve"
    /\ \E r \in fbLoc[i].rows :
          /\ fbLoc' = [fbLoc EXCEPT ![i].rows = @ \ {r}, ![i].row = r]
          /\ users' = reserveAIQuotaRow(users, fbLoc[i].offset)
          /\ IF reserveAIQuotaOk(users, fbLoc[i].offset)
             THEN /\ fbPc' = [fbPc EXCEPT ![i] = "generate"]
                  /\ audit' = [audit EXCEPT !.reserves = Bump(@, r.id)]
             ELSE /\ fbPc' = [fbPc EXCEPT ![i] = "scoldQuota"]
                  /\ audit' = audit
    /\ UNCHANGED <<doingLoc, user_events, evPc, evLoc, stuckPc, stuckLoc, cron, now, serverOffset, tasks, user_stats, calls, start,
                   remPc, remLoc, aggPc, aggLoc, outbox>>

\* quota exhausted: UPDATE tasks SET scolded = true; continue
FbScoldQuota(i) ==
    /\ fbPc[i] = "scoldQuota"
    /\ tasks' = setScolded(fbLoc[i].row.id)
    /\ audit' = [audit EXCEPT !.terminal = Bump(@, fbLoc[i].row.id)]
    /\ FbNext(i)
    /\ UNCHANGED <<doingLoc, user_events, evPc, evLoc, stuckPc, stuckLoc, cron, now, serverOffset, users, user_stats, calls, start,
                   remPc, remLoc, aggPc, aggLoc, outbox>>

\* praiseMessage / angryMessage returns the text
FbGenerate(i) ==
    /\ fbPc[i] = "generate"
    /\ fbPc' = [fbPc EXCEPT ![i] = "send"]
    /\ UNCHANGED <<doingLoc, user_events, evPc, evLoc, stuckPc, stuckLoc, cron, now, serverOffset, users, tasks, user_stats, calls, start,
                   remPc, remLoc, fbLoc, aggPc, aggLoc, outbox, audit>>

\* praiseMessage / angryMessage throws: catch (aiErr)
FbGenerateFails(i) ==
    /\ fbPc[i] = "generate"
    /\ fbPc' = [fbPc EXCEPT ![i] = "rollback"]
    /\ audit' = [audit EXCEPT !.genFailed = Bump(@, fbLoc[i].row.id)]
    /\ UNCHANGED <<doingLoc, user_events, evPc, evLoc, stuckPc, stuckLoc, cron, now, serverOffset, users, tasks, user_stats, calls, start,
                   remPc, remLoc, fbLoc, aggPc, aggLoc, outbox>>

\* await sendMessage(user.chat_id, ai): delivered
FbSend(i) ==
    /\ fbPc[i] = "send"
    /\ outbox' = [outbox EXCEPT !.feedback = Bump(@, fbLoc[i].row.id)]
    /\ fbPc' = [fbPc EXCEPT ![i] = "write"]
    /\ UNCHANGED <<doingLoc, user_events, evPc, evLoc, stuckPc, stuckLoc, cron, now, serverOffset, users, tasks, user_stats, calls, start,
                   remPc, remLoc, fbLoc, aggPc, aggLoc, audit>>

\* await sendMessage(user.chat_id, ai) throws: the same catch (aiErr)
FbSendFails(i) ==
    /\ fbPc[i] = "send"
    /\ fbPc' = [fbPc EXCEPT ![i] = "rollback"]
    /\ UNCHANGED <<doingLoc, user_events, evPc, evLoc, stuckPc, stuckLoc, cron, now, serverOffset, users, tasks, user_stats, calls, start,
                   remPc, remLoc, fbLoc, aggPc, aggLoc, outbox, audit>>

\* UPDATE tasks SET praised = true / scolded = true, by the branch taken on the row read
FbWrite(i) ==
    /\ fbPc[i] = "write"
    /\ tasks' = IF praiseBranch(fbLoc[i].row.task_name, fbLoc[i].row.user_response)
                THEN setPraised(fbLoc[i].row.id)
                ELSE setScolded(fbLoc[i].row.id)
    /\ audit' = [audit EXCEPT !.terminal = Bump(@, fbLoc[i].row.id)]
    /\ FbNext(i)
    /\ UNCHANGED <<doingLoc, user_events, evPc, evLoc, stuckPc, stuckLoc, cron, now, serverOffset, users, user_stats, calls, start,
                   remPc, remLoc, aggPc, aggLoc, outbox>>

\* catch (aiErr): await rollbackAIQuota(user.id)
FbRollback(i) ==
    /\ fbPc[i] = "rollback"
    /\ users' = rollbackAIQuotaRow(users)
    /\ fbPc' = [fbPc EXCEPT ![i] = "scoldFail"]
    /\ audit' = [audit EXCEPT !.rollbacks = Bump(@, fbLoc[i].row.id)]
    /\ UNCHANGED <<doingLoc, user_events, evPc, evLoc, stuckPc, stuckLoc, cron, now, serverOffset, tasks, user_stats, calls, start,
                   remPc, remLoc, fbLoc, aggPc, aggLoc, outbox>>

\* catch (aiErr): UPDATE tasks SET scolded = true
FbScoldFail(i) ==
    /\ fbPc[i] = "scoldFail"
    /\ tasks' = setScolded(fbLoc[i].row.id)
    /\ audit' = [audit EXCEPT !.terminal = Bump(@, fbLoc[i].row.id)]
    /\ FbNext(i)
    /\ UNCHANGED <<doingLoc, user_events, evPc, evLoc, stuckPc, stuckLoc, cron, now, serverOffset, users, user_stats, calls, start,
                   remPc, remLoc, aggPc, aggLoc, outbox>>

(* --------------------- POST /cron/daily-summary ----------------------- *)

AggIdle == [offset |-> 0, userDate |-> NullDate, planned |-> 0, completed |-> 0,
            success |-> FALSE, read |-> NoStats, currentStreak |-> 0, longestStreak |-> 0]

\* a variant of isSuccessfulDay with the threshold passed strictly (> for >=)
isSuccessfulDayStrict(planned, completed) ==
    IF planned = 0 THEN FALSE ELSE 10 * completed > 7 * planned

\* if (planned === 0) return false; return completed / planned >= 0.7
\* (the quotient of two small counts and the literal 0.7 round to the same
\* double exactly when completed / planned = 7 / 10)
isSuccessfulDay(planned, completed) ==
    IF planned = 0 THEN FALSE ELSE 10 * completed >= 7 * planned

\* COUNT(id) AS planned ... FROM tasks WHERE user_id=$1 AND task_date=$2
plannedCount(userDate) ==
    Cardinality({ t \in TaskIds : tasks[t].task_date = userDate })

\* COUNT(*) FILTER (WHERE praised=true) AS completed
completedCount(userDate) ==
    Cardinality({ t \in TaskIds : tasks[t].task_date = userDate /\ tasks[t].praised })

\* a variant that compares lastSuccessDate with today instead of yesterday
nextStreakNoYesterday(read, userDate) ==
    IF read.last_success_date = userDate
    THEN read.current_streak + 1
    ELSE 1

\* currentStreak = (lastSuccessDate === yesterday) ? currentStreak + 1 : 1
nextStreak(read, userDate) ==
    IF read.last_success_date = getDatePlusDays(userDate, -1)
    THEN read.current_streak + 1
    ELSE 1

\* longestStreak = Math.max(longestStreak, currentStreak)
nextLongest(longestStreak, currentStreak) ==
    IF currentStreak > longestStreak THEN currentStreak ELSE longestStreak

\* INSERT INTO user_stats (...) VALUES ($1,$2,$3,$4,$5) ON CONFLICT (user_id) DO UPDATE SET
\*   current_streak=$2, longest_streak=$3, last_success_date=$4, last_summary_date=$5
upsertSuccess(stats, currentStreak, longestStreak, userDate) ==
    [exists |-> TRUE, current_streak |-> currentStreak, longest_streak |-> longestStreak,
     last_success_date |-> userDate, last_summary_date |-> userDate]

\* a variant of the failure upsert that leaves last_summary_date as it was
upsertFailureStreakOnly(stats, longestStreak, userDate) ==
    IF stats.exists
    THEN [stats EXCEPT !.current_streak = 0]
    ELSE [exists |-> TRUE, current_streak |-> 0, longest_streak |-> longestStreak,
          last_success_date |-> NullDate, last_summary_date |-> NullDate]

\* INSERT INTO user_stats (user_id, current_streak, longest_streak, last_summary_date)
\*   VALUES ($1,0,$2,$3) ON CONFLICT (user_id) DO UPDATE SET current_streak=0, last_summary_date=$3
upsertFailure(stats, longestStreak, userDate) ==
    IF stats.exists
    THEN [stats EXCEPT !.current_streak = 0, !.last_summary_date = userDate]
    ELSE [exists |-> TRUE, current_streak |-> 0, longest_streak |-> longestStreak,
          last_success_date |-> NullDate, last_summary_date |-> userDate]

\* a variant that gates on the last success instead of the last summary
summaryGateOnSuccess(read, userDate) == read.last_success_date = userDate

\* if (lastSummaryDate === userDate) continue
summaryGate(read, userDate) == read.last_summary_date = userDate

\* SELECT id, chat_id, timezone_offset FROM users
AggBegin(i) ==
    /\ aggPc[i] = "idle"
    /\ aggPc' = [aggPc EXCEPT ![i] = "count"]
    /\ aggLoc' = [aggLoc EXCEPT ![i] = [AggIdle EXCEPT !.offset = users.timezone_offset]]
    /\ UNCHANGED <<doingLoc, user_events, evPc, evLoc, stuckPc, stuckLoc, cron, now, serverOffset, users, tasks, user_stats, calls, start,
                   remPc, remLoc, fbPc, fbLoc, outbox, audit>>

\* userDate and the count of the day's tasks; if (planned === 0) continue
AggCount(i) ==
    /\ aggPc[i] = "count"
    /\ LET userDate == getUserDate(aggLoc[i].offset)
           planned == plannedCount(userDate)
           completed == completedCount(userDate)
       IN  /\ aggLoc' = [aggLoc EXCEPT ![i] =
                            IF planned = 0 THEN AggIdle
                            ELSE [@ EXCEPT !.userDate = userDate, !.planned = planned,
                                           !.completed = completed,
                                           !.success = isSuccessfulDay(planned, completed)]]
           /\ aggPc' = [aggPc EXCEPT ![i] = IF planned = 0 THEN "idle" ELSE "stats"]
           /\ audit' = IF planned = 0 THEN [audit EXCEPT !.skipped[userDate] = TRUE] ELSE audit
    /\ UNCHANGED <<doingLoc, user_events, evPc, evLoc, stuckPc, stuckLoc, cron, now, serverOffset, users, tasks, user_stats, calls, start,
                   remPc, remLoc, fbPc, fbLoc, outbox>>

\* SELECT ... FROM user_stats; the gate; the new streak values
AggStats(i) ==
    /\ aggPc[i] = "stats"
    /\ LET userDate == aggLoc[i].userDate
           cs == IF aggLoc[i].success THEN nextStreak(user_stats, userDate)
                                      ELSE user_stats.current_streak
           ls == IF aggLoc[i].success THEN nextLongest(user_stats.longest_streak, cs)
                                      ELSE user_stats.longest_streak
       IN  /\ aggLoc' = [aggLoc EXCEPT ![i] =
                            IF summaryGate(user_stats, userDate) THEN AggIdle
                            ELSE [@ EXCEPT !.read = user_stats, !.currentStreak = cs,
                                           !.longestStreak = ls]]
           /\ aggPc' = [aggPc EXCEPT ![i] =
                           IF summaryGate(user_stats, userDate) THEN "idle" ELSE "write"]
           /\ audit' = IF summaryGate(user_stats, userDate)
                       THEN [audit EXCEPT !.gated[userDate] = TRUE]
                       ELSE audit
    /\ UNCHANGED <<doingLoc, user_events, evPc, evLoc, stuckPc, stuckLoc, cron, now, serverOffset, users, tasks, user_stats, calls, start,
                   remPc, remLoc, fbPc, fbLoc, outbox>>

\* the upsert of the success branch or of the failure branch
AggWrite(i) ==
    /\ aggPc[i] = "write"
    /\ user_stats' = IF aggLoc[i].success
                     THEN upsertSuccess(user_stats, aggLoc[i].currentStreak,
                                        aggLoc[i].longestStreak, aggLoc[i].userDate)
                     ELSE upsertFailure(user_stats, aggLoc[i].longestStreak,
                                        aggLoc[i].userDate)
    /\ audit' = [audit EXCEPT !.aggWrites = Bump(@, aggLoc[i].userDate)]
    /\ aggPc' = [aggPc EXCEPT ![i] = "reserve"]
    /\ aggLoc' = [aggLoc EXCEPT ![i] = [AggIdle EXCEPT !.offset = aggLoc[i].offset,
                                                       !.userDate = aggLoc[i].userDate]]
    /\ UNCHANGED <<doingLoc, user_events, evPc, evLoc, stuckPc, stuckLoc, cron, now, serverOffset, users, tasks, calls, start,
                   remPc, remLoc, fbPc, fbLoc, outbox>>

\* if (!(await reserveAIQuota(user.id, user.timezone_offset)))
AggReserve(i) ==
    /\ aggPc[i] = "reserve"
    /\ users' = reserveAIQuotaRow(users, aggLoc[i].offset)
    /\ IF reserveAIQuotaOk(users, aggLoc[i].offset)
       THEN aggPc' = [aggPc EXCEPT ![i] = "generate"]
       ELSE aggPc' = [aggPc EXCEPT ![i] = "sendBase"]
    /\ UNCHANGED <<doingLoc, user_events, evPc, evLoc, stuckPc, stuckLoc, cron, now, serverOffset, tasks, user_stats, calls, start,
                   remPc, remLoc, fbPc, fbLoc, aggLoc, outbox, audit>>

\* summaryMessage returns the text
AggGenerate(i) ==
    /\ aggPc[i] = "generate"
    /\ aggPc' = [aggPc EXCEPT ![i] = "send"]
    /\ UNCHANGED <<doingLoc, user_events, evPc, evLoc, stuckPc, stuckLoc, cron, now, serverOffset, users, tasks, user_stats, calls, start,
                   remPc, remLoc, fbPc, fbLoc, aggLoc, outbox, audit>>

\* summaryMessage throws: catch (aiErr)
AggGenerateFails(i) ==
    /\ aggPc[i] = "generate"
    /\ aggPc' = [aggPc EXCEPT ![i] = "rollback"]
    /\ UNCHANGED <<doingLoc, user_events, evPc, evLoc, stuckPc, stuckLoc, cron, now, serverOffset, users, tasks, user_stats, calls, start,
                   remPc, remLoc, fbPc, fbLoc, aggLoc, outbox, audit>>

\* await sendMessage(user.chat_id, `${base}\n\n${ai}`): delivered
AggSend(i) ==
    /\ aggPc[i] = "send"
    /\ outbox' = [outbox EXCEPT !.summaries = Bump(@, aggLoc[i].userDate)]
    /\ aggPc' = [aggPc EXCEPT ![i] = "idle"]
    /\ aggLoc' = [aggLoc EXCEPT ![i] = AggIdle]
    /\ UNCHANGED <<doingLoc, user_events, evPc, evLoc, stuckPc, stuckLoc, cron, now, serverOffset, users, tasks, user_stats, calls, start,
                   remPc, remLoc, fbPc, fbLoc, audit>>

\* that sendMessage throws: the same catch (aiErr)
AggSendFails(i) ==
    /\ aggPc[i] = "send"
    /\ aggPc' = [aggPc EXCEPT ![i] = "rollback"]
    /\ UNCHANGED <<doingLoc, user_events, evPc, evLoc, stuckPc, stuckLoc, cron, now, serverOffset, users, tasks, user_stats, calls, start,
                   remPc, remLoc, fbPc, fbLoc, aggLoc, outbox, audit>>

\* catch (aiErr): await rollbackAIQuota(user.id)
AggRollback(i) ==
    /\ aggPc[i] = "rollback"
    /\ users' = rollbackAIQuotaRow(users)
    /\ aggPc' = [aggPc EXCEPT ![i] = "sendBase"]
    /\ UNCHANGED <<doingLoc, user_events, evPc, evLoc, stuckPc, stuckLoc, cron, now, serverOffset, tasks, user_stats, calls, start,
                   remPc, remLoc, fbPc, fbLoc, aggLoc, outbox, audit>>

\* await sendMessage(user.chat_id, base): delivered
AggSendBase(i) ==
    /\ aggPc[i] = "sendBase"
    /\ outbox' = [outbox EXCEPT !.summaries = Bump(@, aggLoc[i].userDate)]
    /\ aggPc' = [aggPc EXCEPT ![i] = "idle"]
    /\ aggLoc' = [aggLoc EXCEPT ![i] = AggIdle]
    /\ UNCHANGED <<doingLoc, user_events, evPc, evLoc, stuckPc, stuckLoc, cron, now, serverOffset, users, tasks, user_stats, calls, start,
                   remPc, remLoc, fbPc, fbLoc, audit>>

\* that sendMessage throws: caught by the per-user catch
AggSendBaseFails(i) ==
    /\ aggPc[i] = "sendBase"
    /\ aggPc' = [aggPc EXCEPT ![i] = "idle"]
    /\ aggLoc' = [aggLoc EXCEPT ![i] = AggIdle]
    /\ UNCHANGED <<doingLoc, user_events, evPc, evLoc, stuckPc, stuckLoc, cron, now, serverOffset, users, tasks, user_stats, calls, start,
                   remPc, remLoc, fbPc, fbLoc, outbox, audit>>

(* ------------------------ POST /webhook: /stuck ------------------------ *)

StuckIdle == [offset |-> 0, today |-> NullDate, stuck_count |-> 0,
              stuck_reset_date |-> NullDate]

\* const user = await getOrCreateUser(chatId)
StuckBegin(i) ==
    /\ stuckPc[i] = "idle"
    /\ stuckPc' = [stuckPc EXCEPT ![i] = "read"]
    /\ stuckLoc' = [stuckLoc EXCEPT ![i] = [StuckIdle EXCEPT !.offset = users.timezone_offset]]
    /\ UNCHANGED <<doingLoc, user_events, evPc, evLoc, now, serverOffset, users, tasks, user_stats, calls, start,
                   remPc, remLoc, fbPc, fbLoc, aggPc, aggLoc, cron, outbox, audit>>

\* checkStuckRateLimit: today = getUserDate(timezoneOffset);
\* SELECT stuck_count, stuck_reset_date FROM users WHERE id = $1
StuckRead(i) ==
    /\ stuckPc[i] = "read"
    /\ stuckPc' = [stuckPc EXCEPT ![i] = "limit"]
    /\ stuckLoc' = [stuckLoc EXCEPT ![i] =
                       [@ EXCEPT !.today = getUserDate(stuckLoc[i].offset),
                                 !.stuck_count = users.stuck_count,
                                 !.stuck_reset_date = users.stuck_reset_date]]
    /\ UNCHANGED <<doingLoc, user_events, evPc, evLoc, now, serverOffset, users, tasks, user_stats, calls, start,
                   remPc, remLoc, fbPc, fbLoc, aggPc, aggLoc, cron, outbox, audit>>

\* what checkStuckRateLimit returns for the row it read
stuckAllowed(read) ==
    read.stuck_reset_date # read.today \/ ~(read.stuck_count >= STUCK_LIMIT)

\* UPDATE users SET stuck_count = 1, stuck_reset_date = $1   (the date differs)
\* UPDATE users SET stuck_count = stuck_count + 1            (below the limit)
stuckUpdate(row, read) ==
    IF read.stuck_reset_date # read.today
    THEN [row EXCEPT !.stuck_count = 1, !.stuck_reset_date = read.today]
    ELSE [row EXCEPT !.stuck_count = @ + 1]

\* the rest of checkStuckRateLimit: the decision on the row read, and the UPDATE
StuckLimit(i) ==
    /\ stuckPc[i] = "limit"
    /\ IF stuckAllowed(stuckLoc[i])
       THEN /\ users' = stuckUpdate(users, stuckLoc[i])
            /\ audit' = [audit EXCEPT !.stuckPassed = @ + 1]
            /\ stuckPc' = [stuckPc EXCEPT ![i] = "reserve"]
       ELSE /\ users' = users
            /\ audit' = audit
            /\ stuckPc' = [stuckPc EXCEPT ![i] = "reply"]
    /\ stuckLoc' = [stuckLoc EXCEPT ![i] = [StuckIdle EXCEPT !.offset = stuckLoc[i].offset]]
    /\ UNCHANGED <<doingLoc, user_events, evPc, evLoc, now, serverOffset, tasks, user_stats, calls, start,
                   remPc, remLoc, fbPc, fbLoc, aggPc, aggLoc, cron, outbox>>

\* if (!(await reserveAIQuota(user.id, user.timezone_offset)))
StuckReserve(i) ==
    /\ stuckPc[i] = "reserve"
    /\ users' = reserveAIQuotaRow(users, stuckLoc[i].offset)
    /\ IF reserveAIQuotaOk(users, stuckLoc[i].offset)
       THEN /\ stuckPc' = [stuckPc EXCEPT ![i] = "generate"]
            /\ audit' = [audit EXCEPT !.quotaReserved = @ + 1]
       ELSE /\ stuckPc' = [stuckPc EXCEPT ![i] = "reply"]
            /\ audit' = audit
    /\ UNCHANGED <<doingLoc, user_events, evPc, evLoc, now, serverOffset, tasks, user_stats, calls, start,
                   remPc, remLoc, fbPc, fbLoc, aggPc, aggLoc, stuckLoc, cron, outbox>>

\* const aiResponse = await stuckHelp(problem): returns
StuckGenerate(i) ==
    /\ stuckPc[i] = "generate"
    /\ stuckPc' = [stuckPc EXCEPT ![i] = "send"]
    /\ UNCHANGED <<doingLoc, user_events, evPc, evLoc, now, serverOffset, users, tasks, user_stats, calls, start,
                   remPc, remLoc, fbPc, fbLoc, aggPc, aggLoc, stuckLoc, cron, outbox, audit>>

\* stuckHelp throws: catch (err)
StuckGenerateFails(i) ==
    /\ stuckPc[i] = "generate"
    /\ stuckPc' = [stuckPc EXCEPT ![i] = "rollback"]
    /\ UNCHANGED <<doingLoc, user_events, evPc, evLoc, now, serverOffset, users, tasks, user_stats, calls, start,
                   remPc, remLoc, fbPc, fbLoc, aggPc, aggLoc, stuckLoc, cron, outbox, audit>>

\* await sendMessage(chatId, aiResponse): delivered
StuckSend(i) ==
    /\ stuckPc[i] = "send"
    /\ stuckPc' = [stuckPc EXCEPT ![i] = "idle"]
    /\ stuckLoc' = [stuckLoc EXCEPT ![i] = StuckIdle]
    /\ UNCHANGED <<doingLoc, user_events, evPc, evLoc, now, serverOffset, users, tasks, user_stats, calls, start,
                   remPc, remLoc, fbPc, fbLoc, aggPc, aggLoc, cron, outbox, audit>>

\* that sendMessage throws: the same catch (err)
StuckSendFails(i) ==
    /\ stuckPc[i] = "send"
    /\ stuckPc' = [stuckPc EXCEPT ![i] = "rollback"]
    /\ UNCHANGED <<doingLoc, user_events, evPc, evLoc, now, serverOffset, users, tasks, user_stats, calls, start,
                   remPc, remLoc, fbPc, fbLoc, aggPc, aggLoc, stuckLoc, cron, outbox, audit>>

\* catch (err): await rollbackAIQuota(user.id)
StuckRollback(i) ==
    /\ stuckPc[i] = "rollback"
    /\ users' = rollbackAIQuotaRow(users)
    /\ audit' = [audit EXCEPT !.quotaRolledBack = @ + 1]
    /\ stuckPc' = [stuckPc EXCEPT ![i] = "reply"]
    /\ UNCHANGED <<doingLoc, user_events, evPc, evLoc, now, serverOffset, tasks, user_stats, calls, start,
                   remPc, remLoc, fbPc, fbLoc, aggPc, aggLoc, stuckLoc, cron, outbox>>

\* await sendMessage(chatId, <fixed text>); return res.sendStatus(200)
StuckReply(i) ==
    /\ stuckPc[i] = "reply"
    /\ stuckPc' = [stuckPc EXCEPT ![i] = "idle"]
    /\ stuckLoc' = [stuckLoc EXCEPT ![i] = StuckIdle]
    /\ UNCHANGED <<doingLoc, user_events, evPc, evLoc, now, serverOffset, users, tasks, user_stats, calls, start,
                   remPc, remLoc, fbPc, fbLoc, aggPc, aggLoc, cron, outbox, audit>>

(* ------------- the /cron/* routes: guard and loop over users ----------- *)

\* rows of table users that a sweep iterates over
NumUsers == 3
UserIds == 1..NumUsers

\* the six sweep routes
Routes == { "morning-start", "plan-reminder", "task-reminders",
            "angry-check", "daily-summary", "daily-reset" }

\* a value that is undefined (no such header, no such environment entry) or a string
Undefined == [isUndefined |-> TRUE, text |-> ""]
Str(text) == [isUndefined |-> FALSE, text |-> text]

\* process.env.CRON_SECRET: not set, or set
Secrets == { Undefined, Str("s3cret") }
\* req.headers["x-cron-secret"]: no such header, the secret, another string
Headers == { Undefined, Str("s3cret"), Str("guess") }

\* the server process is not started yet
NoCron == [secret |-> Undefined, route |-> "none", header |-> Undefined,
           status |-> "down", queue |-> << >>, served |-> {}, failed |-> {}]

\* req.headers["x-cron-secret"] !== CRON_SECRET
rejected(header, secret) == header # secret

\* a variant of afterStoreError in which the error leaves the loop
afterStoreErrorAbort(queue) == << >>

\* catch (err) { console.error(...) } at the end of the loop body: the next user
afterStoreError(queue) == Tail(queue)

\* users.rows in the order the SELECT returned them
usersRows == [k \in 1..NumUsers |-> k]

cronBusy == cron.status \in { "select", "running" }

\* const CRON_SECRET = process.env.CRON_SECRET, then app.listen
ServerStart(secret) ==
    /\ cron.status = "down"
    /\ cron' = [cron EXCEPT !.secret = secret, !.status = "listening"]
    /\ UNCHANGED <<doingLoc, user_events, evPc, evLoc, now, serverOffset, users, tasks, user_stats, calls, start,
                   remPc, remLoc, fbPc, fbLoc, aggPc, aggLoc, stuckPc, stuckLoc,
                   outbox, audit>>

\* app.post("/cron/<route>"): if (header !== CRON_SECRET) return res.sendStatus(401)
CronRequest(route, header) ==
    /\ ~cronBusy /\ cron.status # "down"
    /\ cron' = [cron EXCEPT !.route = route, !.header = header,
                            !.status = IF rejected(header, cron.secret) THEN "401" ELSE "select",
                            !.queue = << >>, !.served = {}, !.failed = {}]
    /\ UNCHANGED <<doingLoc, user_events, evPc, evLoc, now, serverOffset, users, tasks, user_stats, calls, start,
                   remPc, remLoc, fbPc, fbLoc, aggPc, aggLoc, stuckPc, stuckLoc,
                   outbox, audit>>

\* const users = await pool.query("SELECT id, chat_id, timezone_offset FROM users")
CronSelect ==
    /\ cron.status = "select"
    /\ cron' = [cron EXCEPT !.status = "running", !.queue = usersRows]
    /\ UNCHANGED <<doingLoc, user_events, evPc, evLoc, now, serverOffset, users, tasks, user_stats, calls, start,
                   remPc, remLoc, fbPc, fbLoc, aggPc, aggLoc, stuckPc, stuckLoc,
                   outbox, audit>>

\* that query throws: the outer catch answers res.status(500)
CronSelectFails ==
    /\ cron.status = "select"
    /\ cron' = [cron EXCEPT !.status = "500"]
    /\ UNCHANGED <<doingLoc, user_events, evPc, evLoc, now, serverOffset, users, tasks, user_stats, calls, start,
                   remPc, remLoc, fbPc, fbLoc, aggPc, aggLoc, stuckPc, stuckLoc,
                   outbox, audit>>

\* for (const user of users.rows) { try { ... } : the body runs to its end
CronUser ==
    /\ cron.status = "running" /\ cron.queue # << >>
    /\ cron' = [cron EXCEPT !.served = @ \cup { Head(cron.queue) },
                            !.queue = Tail(cron.queue)]
    /\ UNCHANGED <<doingLoc, user_events, evPc, evLoc, now, serverOffset, users, tasks, user_stats, calls, start,
                   remPc, remLoc, fbPc, fbLoc, aggPc, aggLoc, stuckPc, stuckLoc,
                   outbox, audit>>

\* a pool.query of the body throws: ... } catch (err) { console.error(...) } }
CronUserFails ==
    /\ cron.status = "running" /\ cron.queue # << >>
    /\ cron' = [cron EXCEPT !.failed = @ \cup { Head(cron.queue) },
                            !.queue = afterStoreError(cron.queue)]
    /\ UNCHANGED <<doingLoc, user_events, evPc, evLoc, now, serverOffset, users, tasks, user_stats, calls, start,
                   remPc, remLoc, fbPc, fbLoc, aggPc, aggLoc, stuckPc, stuckLoc,
                   outbox, audit>>

\* res.json({ ok: true })
CronRespond ==
    /\ cron.status = "running" /\ cron.queue = << >>
    /\ cron' = [cron EXCEPT !.status = "200"]
    /\ UNCHANGED <<doingLoc, user_events, evPc, evLoc, now, serverOffset, users, tasks, user_stats, calls, start,
                   remPc, remLoc, fbPc, fbLoc, aggPc, aggLoc, stuckPc, stuckLoc,
                   outbox, audit>>

(* ------- POST /cron/morning-start and POST /cron/plan-reminder --------- *)

EvIdle == [type |-> "none", offset |-> 0, userDate |-> NullDate]

\* SELECT 1 FROM user_events WHERE user_id = $1 AND event_type = $2 AND event_date = $3
alreadySentToday(type, userDate) == << type, userDate >> \in user_events

\* INSERT INTO user_events (user_id, event_type, event_date) VALUES ($1, $2, $3)
\*   ON CONFLICT DO NOTHING
markSentToday(type, userDate) == user_events \cup { << type, userDate >> }

\* SELECT id, chat_id, timezone_offset FROM users
EvBegin(i, type) ==
    /\ evPc[i] = "idle"
    /\ evPc' = [evPc EXCEPT ![i] = "check"]
    /\ evLoc' = [evLoc EXCEPT ![i] = [EvIdle EXCEPT !.type = type,
                                                    !.offset = users.timezone_offset]]
    /\ UNCHANGED <<doingLoc, now, serverOffset, users, tasks, user_stats, calls, start,
                   remPc, remLoc, fbPc, fbLoc, aggPc, aggLoc, stuckPc, stuckLoc, cron, user_events, outbox, audit>>

\* userDate = getUserDate(row.timezone_offset);
\* if (await alreadySentToday(row.id, type, row.timezone_offset)) continue
EvCheck(i) ==
    /\ evPc[i] = "check"
    /\ LET userDate == getUserDate(evLoc[i].offset)
       IN  IF alreadySentToday(evLoc[i].type, userDate)
           THEN /\ evPc' = [evPc EXCEPT ![i] = "idle"]
                /\ evLoc' = [evLoc EXCEPT ![i] = EvIdle]
           ELSE /\ evPc' = [evPc EXCEPT ![i] = "mark"]
                /\ evLoc' = [evLoc EXCEPT ![i].userDate = userDate]
    /\ UNCHANGED <<doingLoc, now, serverOffset, users, tasks, user_stats, calls, start,
                   remPc, remLoc, fbPc, fbLoc, aggPc, aggLoc, stuckPc, stuckLoc, cron, user_events, outbox, audit>>

\* await markSentToday(row.id, type, userDate)
EvMark(i) ==
    /\ evPc[i] = "mark"
    /\ user_events' = markSentToday(evLoc[i].type, evLoc[i].userDate)
    /\ evPc' = [evPc EXCEPT ![i] = "reserve"]
    /\ UNCHANGED <<doingLoc, now, serverOffset, users, tasks, user_stats, calls, start,
                   remPc, remLoc, fbPc, fbLoc, aggPc, aggLoc, stuckPc, stuckLoc, cron, evLoc, outbox, audit>>

\* if (!(await reserveAIQuota(row.id, row.timezone_offset)))
EvReserve(i) ==
    /\ evPc[i] = "reserve"
    /\ users' = reserveAIQuotaRow(users, evLoc[i].offset)
    /\ IF reserveAIQuotaOk(users, evLoc[i].offset)
       THEN /\ evPc' = [evPc EXCEPT ![i] = "generate"]
            /\ audit' = [audit EXCEPT !.eventReserves[evLoc[i].type] =
                                          Bump(@, evLoc[i].userDate)]
       ELSE /\ evPc' = [evPc EXCEPT ![i] = "sendPlain"]
            /\ audit' = audit
    /\ UNCHANGED <<doingLoc, now, serverOffset, tasks, user_stats, calls, start,
                   remPc, remLoc, fbPc, fbLoc, aggPc, aggLoc, stuckPc, stuckLoc, cron,
                   user_events, evLoc, outbox>>

\* morningMessage / planningPrompt returns the text
EvGenerate(i) ==
    /\ evPc[i] = "generate"
    /\ evPc' = [evPc EXCEPT ![i] = "send"]
    /\ UNCHANGED <<doingLoc, now, serverOffset, users, tasks, user_stats, calls, start,
                   remPc, remLoc, fbPc, fbLoc, aggPc, aggLoc, stuckPc, stuckLoc, cron, user_events, evLoc, outbox, audit>>

\* morningMessage / planningPrompt throws: catch (err)
EvGenerateFails(i) ==
    /\ evPc[i] = "generate"
    /\ evPc' = [evPc EXCEPT ![i] = "rollback"]
    /\ UNCHANGED <<doingLoc, now, serverOffset, users, tasks, user_stats, calls, start,
                   remPc, remLoc, fbPc, fbLoc, aggPc, aggLoc, stuckPc, stuckLoc, cron, user_events, evLoc, outbox, audit>>

\* await sendMessage(row.chat_id, `${ai}...`): delivered
EvSend(i) ==
    /\ evPc[i] = "send"
    /\ outbox' = [outbox EXCEPT !.events[evLoc[i].type] = Bump(@, evLoc[i].userDate)]
    /\ evPc' = [evPc EXCEPT ![i] = "idle"]
    /\ evLoc' = [evLoc EXCEPT ![i] = EvIdle]
    /\ UNCHANGED <<doingLoc, now, serverOffset, users, tasks, user_stats, calls, start,
                   remPc, remLoc, fbPc, fbLoc, aggPc, aggLoc, stuckPc, stuckLoc, cron, user_events, audit>>

\* that sendMessage throws: the same catch (err)
EvSendFails(i) ==
    /\ evPc[i] = "send"
    /\ evPc' = [evPc EXCEPT ![i] = "rollback"]
    /\ UNCHANGED <<doingLoc, now, serverOffset, users, tasks, user_stats, calls, start,
                   remPc, remLoc, fbPc, fbLoc, aggPc, aggLoc, stuckPc, stuckLoc, cron, user_events, evLoc, outbox, audit>>

\* catch (err): await rollbackAIQuota(row.id)
EvRollback(i) ==
    /\ evPc[i] = "rollback"
    /\ users' = rollbackAIQuotaRow(users)
    /\ evPc' = [evPc EXCEPT ![i] = "sendPlain"]
    /\ UNCHANGED <<doingLoc, now, serverOffset, tasks, user_stats, calls, start,
                   remPc, remLoc, fbPc, fbLoc, aggPc, aggLoc, stuckPc, stuckLoc, cron,
                   user_events, evLoc, outbox, audit>>

\* await sendMessage(row.chat_id, <the fixed text>): delivered
EvSendPlain(i) ==
    /\ evPc[i] = "sendPlain"
    /\ outbox' = [outbox EXCEPT !.events[evLoc[i].type] = Bump(@, evLoc[i].userDate)]
    /\ evPc' = [evPc EXCEPT ![i] = "idle"]
    /\ evLoc' = [evLoc EXCEPT ![i] = EvIdle]
    /\ UNCHANGED <<doingLoc, now, serverOffset, users, tasks, user_stats, calls, start,
                   remPc, remLoc, fbPc, fbLoc, aggPc, aggLoc, stuckPc, stuckLoc, cron, user_events, audit>>

\* that sendMessage throws: caught by the per-user catch
EvSendPlainFails(i) ==
    /\ evPc[i] = "sendPlain"
    /\ evPc' = [evPc EXCEPT ![i] = "idle"]
    /\ evLoc' = [evLoc EXCEPT ![i] = EvIdle]
    /\ UNCHANGED <<doingLoc, now, serverOffset, users, tasks, user_stats, calls, start,
                   remPc, remLoc, fbPc, fbLoc, aggPc, aggLoc, stuckPc, stuckLoc, cron, user_events, outbox, audit>>

(* ---------------------- POST /webhook: /timezone ---------------------- *)

\* if (!offsetStr || isNaN(offset) || offset < -720 || offset > 840): refused
validOffset(offset) == ~(offset < -720 \/ offset > 840)

\* UPDATE users SET timezone_offset = $1 WHERE id = $2, after the validation
Timezone(offset) ==
    /\ users' = IF validOffset(offset) THEN [users EXCEPT !.timezone_offset = offset] ELSE users
    /\ UNCHANGED <<doingLoc, user_events, evPc, evLoc, now, serverOffset, tasks, user_stats, calls, start,
                   remPc, remLoc, fbPc, fbLoc, aggPc, aggLoc, stuckPc, stuckLoc, cron,
                   outbox, audit>>

(* --------------------------- initial states --------------------------- *)

\* no handler is running, nothing was sent
InitIdle ==
    /\ remPc = [i \in Sweepers |-> "idle"] /\ remLoc = [i \in Sweepers |-> RemIdle]
    /\ fbPc = [i \in Sweepers |-> "idle"] /\ fbLoc = [i \in Sweepers |-> FbIdle]
    /\ aggPc = [i \in Sweepers |-> "idle"] /\ aggLoc = [i \in Sweepers |-> AggIdle]
    /\ stuckPc = [i \in Sweepers |-> "idle"] /\ stuckLoc = [i \in Sweepers |-> StuckIdle]
    /\ cron = NoCron
    /\ user_events = {}
    /\ evPc = [i \in Sweepers |-> "idle"] /\ evLoc = [i \in Sweepers |-> EvIdle]
    /\ doingLoc = [i \in Sweepers |-> DoingIdle]
    /\ outbox = NoOutbox
    /\ audit = NoAudit

\* no handler is running, nothing was sent, the server process runs in UTC
InitHandlers == serverOffset = 0 /\ InitIdle

\* quota rows the ledger can hold when `today` begins: never used, used on an
\* earlier day, or used today
QuotaRows(today) ==
    { NewUser }
    \cup { [NewUser EXCEPT !.ai_calls_today = n, !.ai_reset_date = d] :
             n \in 0..AI_DAILY_LIMIT, d \in { today - 1, today } }

(* ------------- specification: concurrent reserveAIQuota calls --------- *)

InitQuota ==
    /\ InitHandlers
    /\ now = At(1, 12, 0)
    /\ users \in QuotaRows(1)
    /\ tasks = [t \in TaskIds |-> NewTask(1, << 9, 0 >>, StudyGo)]
    /\ user_stats = NoStats
    /\ calls = [NoCalls EXCEPT !.pending = NumCalls]
    /\ start = [row |-> users, today |-> getUserDate(users.timezone_offset)]

NextQuota == ReserveIssue \/ ReserveCall

SpecQuota == InitQuota /\ [][NextQuota]_vars

\* calls already counted against `today` when the concurrent calls were issued
usedAtStart ==
    IF start.row.ai_reset_date = start.today THEN start.row.ai_calls_today ELSE 0

Min(a, b) == IF a < b THEN a ELSE b

\* the counter as it counts for `today`: a row stamped with another date counts 0
countFor(row, today) == IF row.ai_reset_date = today THEN row.ai_calls_today ELSE 0

\* C1: of the concurrent reserveAIQuota calls made for one user on one local
\* day, exactly min(N, limit - calls already counted that day) succeed and the
\* others fail, in every interleaving and at every point of it; with the
\* counter at 0 and N = 25 that is 20 successes and 5 failures.
ReserveExactlyMin ==
    LET made == NumCalls - calls.pending - calls.inflight
    IN  /\ calls.succeeded = Min(made, AI_DAILY_LIMIT - usedAtStart)
        /\ calls.failed = made - calls.succeeded

\* all the calls returned, the counter stood at 0: limit successes, the rest failed
ReserveAllReturned ==
    /\ calls.pending = 0
    /\ calls.inflight = 0
    /\ usedAtStart = 0
    /\ calls.succeeded = AI_DAILY_LIMIT
    /\ calls.failed = NumCalls - AI_DAILY_LIMIT
    /\ calls.failed > 0

\* C10: one Reserve: if the stored reset date differs from today it succeeds,
\* sets the counter to 1 and stamps today; otherwise it succeeds and adds 1
\* only below the limit; when it fails, counter and reset date are unchanged.
ReserveSemantics ==
    [][ calls'.inflight < calls.inflight =>
          LET today == getUserDate(users.timezone_offset)
              ok == calls'.succeeded = calls.succeeded + 1 /\ calls'.failed = calls.failed
              ko == calls'.failed = calls.failed + 1 /\ calls'.succeeded = calls.succeeded
          IN  IF users.ai_reset_date # today
              THEN ok /\ users'.ai_calls_today = 1 /\ users'.ai_reset_date = today
              ELSE IF users.ai_calls_today < AI_DAILY_LIMIT
                   THEN ok /\ users'.ai_calls_today = users.ai_calls_today + 1
                           /\ users'.ai_reset_date = today
                   ELSE ko /\ users' = users ]_vars

\* a Reserve found a counter of an earlier day above 1 and reset it to 1
ReserveResetSeen ==
    /\ start.row.ai_reset_date # start.today
    /\ start.row.ai_calls_today > 1
    /\ calls.succeeded = 1
    /\ users.ai_calls_today = 1
    /\ users.ai_reset_date = start.today

(* ------------- specification: overlapping reminder sweeps ------------- *)

\* no quota call is part of the scenario
InitNoCalls ==
    /\ calls = NoCalls
    /\ start = [row |-> users, today |-> getUserDate(users.timezone_offset)]

\* two tasks a day, planned for 09:00 and 09:02, from day 1 on
ReminderTasks ==
    [t \in TaskIds |->
        NewTask(1 + (t - 1) \div 2, IF t % 2 = 1 THEN << 9, 0 >> ELSE << 9, 2 >>, StudyGo)]

\* the instants at which the external trigger fires
ReminderClock ==
    { At(d, 8, 58) : d \in 1..MaxDay } \cup { At(d, 9, 0) : d \in 1..MaxDay }
    \cup { At(d, 9, 4) : d \in 1..MaxDay }

InitReminder ==
    /\ InitHandlers
    /\ now = At(1, 8, 58)
    /\ users = NewUser
    /\ tasks = ReminderTasks
    /\ user_stats = NoStats
    /\ InitNoCalls

TickReminder ==
    /\ TickIn(ReminderClock)
    /\ UNCHANGED <<doingLoc, user_events, evPc, evLoc, stuckPc, stuckLoc, cron, serverOffset, users, tasks, user_stats, calls, start,
                   remPc, remLoc, fbPc, fbLoc, aggPc, aggLoc, outbox, audit>>

NextReminder ==
    \/ \E i \in Sweepers : RemBegin(i) \/ RemClaim(i) \/ RemSend(i) \/ RemSendFails(i)
    \/ TickReminder
    \/ DailyReset

SpecReminder == InitReminder /\ [][NextReminder]_vars

\* C2: for every task, over all overlapping and repeated reminder sweeps, at
\* most one sweep changes reminder_sent from false to true and gets the task
\* in its result set; no later or concurrent sweep gets it again, and no two
\* sweeps hold the same task at once.
ReminderClaimExclusive ==
    /\ \A t \in TaskIds : audit.claims[t] <= 1
    /\ \A t \in TaskIds : audit.claims[t] = 0 => tasks[t].reminder_sent = FALSE
    /\ \A i, j \in Sweepers : i # j => remLoc[i].rows \cap remLoc[j].rows = {}

\* two overlapping sweeps each hold claimed tasks of the same day, and share none
ReminderOverlapSeen ==
    \E i, j \in Sweepers :
        /\ i # j
        /\ remPc[i] = "send" /\ remPc[j] = "send"
        /\ remLoc[i].rows # {} /\ remLoc[j].rows # {}
        /\ remLoc[i].userDate = remLoc[j].userDate
        /\ \A t \in remLoc[i].rows \cup remLoc[j].rows : audit.claims[t] = 1

\* C15: each task claimed by a reminder sweep triggers exactly one reminder
\* send by that sweep, also when the send for another task of the same sweep
\* fails: once the sweep that claimed a task no longer holds it, sendMessage
\* was called once for the task.
ReminderSendPerClaim ==
    \A t \in TaskIds :
        (audit.claims[t] >= 1 /\ \A i \in Sweepers : t \notin remLoc[i].rows)
            => audit.sends[t] = 1

\* C23: at-least-once delivery: for every task recorded in the store as
\* reminded (reminder_sent = true) whose sweep has finished with it, the
\* reminder message was sent successfully at least once, by that sweep or by a
\* later invocation.
ReminderDeliveredOnceMarked ==
    \A t \in TaskIds :
        (tasks[t].reminder_sent /\ \A i \in Sweepers : t \notin remLoc[i].rows)
            => outbox.reminders[t] >= 1

\* C27: the reminder sweep uses a forward-looking window: a task is claimed
\* only while its scheduled minute-of-day is strictly later than the user's
\* current local minute-of-day, never at or after its scheduled time.
ReminderBeforeTask ==
    [][\A t \in TaskIds :
          (tasks'[t].reminder_sent /\ ~tasks[t].reminder_sent)
              => taskMinutes(t) > getUserMinutes(users.timezone_offset)]_vars

(* ------------- specification: overlapping feedback sweeps ------------- *)

\* one task a day, planned for 09:00: task t on day t
OneTaskADay ==
    [t \in TaskIds |-> NewTask(t, << 9, 0 >>, StudyGo)]

\* day 1: the reminder is due, the feedback is due, the feedback window is over
FeedbackClock == { At(1, 9, 0), At(1, 9, 5), At(1, 9, 30) }

\* the day's quota is untouched, or all but one call of it is used
InitFeedback ==
    /\ InitHandlers
    /\ now = At(1, 9, 0)
    /\ users \in { NewUser,
                   [NewUser EXCEPT !.ai_calls_today = AI_DAILY_LIMIT - 1,
                                   !.ai_reset_date = 1] }
    /\ tasks = OneTaskADay
    /\ user_stats = NoStats
    /\ InitNoCalls

TickFeedback ==
    /\ TickIn(FeedbackClock)
    /\ UNCHANGED <<doingLoc, user_events, evPc, evLoc, stuckPc, stuckLoc, cron, serverOffset, users, tasks, user_stats, calls, start,
                   remPc, remLoc, fbPc, fbLoc, aggPc, aggLoc, outbox, audit>>

\* one reminder sweep at a time, the user's replies, overlapping feedback sweeps
NextFeedback ==
    \/ RemBegin(1) \/ RemClaim(1) \/ RemSend(1) \/ RemSendFails(1)
    \/ \E r \in Responses : Doing(r)
    \/ \E i \in Sweepers :
          \/ FbBegin(i) \/ FbSelect(i) \/ FbReserve(i) \/ FbScoldQuota(i)
          \/ FbGenerate(i) \/ FbGenerateFails(i) \/ FbSend(i) \/ FbSendFails(i)
          \/ FbWrite(i) \/ FbRollback(i) \/ FbScoldFail(i)
    \/ TickFeedback

SpecFeedback == InitFeedback /\ [][NextFeedback]_vars

\* a feedback sweep still holds task t: selected, not yet written terminal by it
fbHolds(i, t) ==
    fbLoc[i].row.id = t \/ \E r \in fbLoc[i].rows : r.id = t

\* C3: in every reachable state no task has praised = true and scolded = true,
\* also when two feedback sweeps overlap and the user's reply is recorded
\* between their reads of the task.
PraisedScoldedExclusive ==
    \A t \in TaskIds : ~(tasks[t].praised /\ tasks[t].scolded)

\* C4: the terminal state of a task is entered exactly once per day: no
\* second terminal write, no second quota Reserve and no second praise/scold
\* message is made for a task by an overlapping or later feedback sweep.
TerminalEnteredOnce ==
    \A t \in TaskIds :
        /\ audit.terminal[t] <= 1
        /\ audit.reserves[t] <= 1
        /\ outbox.feedback[t] <= 1

\* C5: every task the feedback sweep has evaluated (terminal, and no sweep
\* still working on it) got exactly one message, whichever branch was taken.
FeedbackExactlyOneMessage ==
    \A t \in TaskIds :
        ( /\ tasks[t].praised \/ tasks[t].scolded
          /\ \A i \in Sweepers : ~fbHolds(i, t) )
        => outbox.feedback[t] = 1

\* sweep i is inside catch (aiErr) for task t
fbInCatch(i, t) == fbLoc[i].row.id = t /\ fbPc[i] \in { "rollback", "scoldFail" }

RECURSIVE sumTo(_, _)
sumTo(f, n) == IF n = 0 THEN 0 ELSE f[n] + sumTo(f, n - 1)

\* C16: when the generator fails after a successful Reserve, the quota is
\* rolled back and the task is still written scolded, so that no later
\* feedback sweep selects it that day: once the catch has run, the task is
\* scolded and its Reserve is given back; the day's counter is the Reserves
\* minus the Rollbacks; scolded stays set and a select never returns a
\* scolded task.
GenerationFailureClosed ==
    /\ [](/\ \A t \in TaskIds :
               (audit.genFailed[t] >= 1 /\ \A i \in Sweepers : ~fbInCatch(i, t))
                   => /\ tasks[t].scolded
                      /\ audit.rollbacks[t] >= audit.genFailed[t]
          /\ countFor(users, start.today)
                = usedAtStart + sumTo(audit.reserves, NumTasks) - sumTo(audit.rollbacks, NumTasks))
    /\ [][/\ \A t \in TaskIds : tasks[t].scolded => tasks'[t].scolded
          /\ \A i \in Sweepers :
                (fbPc[i] = "select" /\ fbPc'[i] = "reserve")
                    => \A r \in fbLoc'[i].rows : ~tasks[r.id].scolded]_vars

\* the generator failed for task 1: the task is scolded without a message and
\* the day's counter is back at its value before the sweep
GenerationFailureSeen ==
    /\ audit.genFailed[1] = 1 /\ audit.reserves[1] = 1 /\ audit.rollbacks[1] = 1
    /\ tasks[1].scolded /\ ~tasks[1].praised
    /\ outbox.feedback[1] = 0
    /\ countFor(users, start.today) = usedAtStart
    /\ \A i \in Sweepers : fbPc[i] = "idle"

\* the words of more than 2 characters of a text, in lower case
contentWords(text) ==
    LET ws == split(toLowerCase(text))
    IN  { ws[k] : k \in { j \in DOMAIN ws : Len(ws[j]) > 2 } }

\* the response has a content word in common with the task name
sharesContentWord(task_name, user_response) ==
    /\ ~user_response.isNull
    /\ contentWords(task_name) \cap contentWords(user_response.text) # {}

\* C17: a feedback sweep writes praised for a task only if the response it
\* read shares a content word (more than 2 characters, case-insensitively)
\* with the task name; otherwise, also with no response, it writes scolded.
\* 'Study Go' with 'go study' is praised, with 'tv' or no response scolded.
ClassifiedByContentWord ==
    [][\A i \in Sweepers :
          (fbPc[i] = "write" /\ fbPc'[i] # "write")
              => LET row == fbLoc[i].row
                     shares == sharesContentWord(row.task_name, row.user_response)
                 IN  /\ (tasks'[row.id].praised /\ ~tasks[row.id].praised) => shares
                     /\ ~shares => tasks'[row.id].scolded]_vars

\* the day's quota is used up
quotaExhausted(today) ==
    users.ai_reset_date = today /\ users.ai_calls_today >= AI_DAILY_LIMIT

SendFailureKeepsTransition ==
    [][\A i \in Sweepers :
          /\ fbPc[i] = "send" => fbPc'[i] \in { "send", "write" }
          /\ (fbPc[i] = "send" /\ fbPc'[i] # "send") => UNCHANGED <<users, tasks>>
          /\ (fbPc[i] = "write" /\ fbPc'[i] # "write"
                 /\ praiseBranch(fbLoc[i].row.task_name, fbLoc[i].row.user_response))
                => tasks'[fbLoc[i].row.id].praised]_vars

(* ------------- specification: the daily aggregator over days ---------- *)

\* the external trigger's schedule, in the user's local time: reminders and
\* the user's reply at 09:00, the feedback sweep at 09:05, the summary at 23:00
ReminderInstants == { At(d, 9, 0) : d \in 1..MaxDay }
FeedbackInstants == { At(d, 9, 5) : d \in 1..MaxDay }
SummaryInstants == { At(d, 23, 0) : d \in 1..MaxDay }

AggClock == ReminderInstants \cup FeedbackInstants \cup SummaryInstants

InitAgg ==
    /\ InitHandlers
    /\ now = At(1, 9, 0)
    /\ users = NewUser
    /\ tasks = OneTaskADay
    /\ user_stats = NoStats
    /\ InitNoCalls

\* the day's tasks the trigger of the current instant has still to serve
awaitingTrigger ==
    LET userDate == getUserDate(users.timezone_offset)
    IN  { t \in TaskIds :
            /\ tasks[t].task_date = userDate
            /\ \/ now \in ReminderInstants /\ ~tasks[t].reminder_sent
               \/ now \in FeedbackInstants /\ ~(tasks[t].praised \/ tasks[t].scolded) }

\* the reminder and the feedback sweep run on schedule and return before the
\* next trigger instant; a daily-summary invocation may stay in flight between
\* its reads and its write for any time.  What was observed at the instant is
\* dropped: the counts are per trigger instant.
TickAgg ==
    /\ remPc[1] = "idle" /\ fbPc[1] = "idle"
    /\ awaitingTrigger = {}
    /\ \A i \in Sweepers : aggPc[i] \in {"idle", "stats", "write"}
    /\ TickIn(AggClock)
    /\ outbox' = NoOutbox
    /\ audit' = NoAudit
    /\ UNCHANGED <<doingLoc, user_events, evPc, evLoc, stuckPc, stuckLoc, cron, serverOffset, users, tasks, user_stats, calls, start,
                   remPc, remLoc, fbPc, fbLoc, aggPc, aggLoc>>

ReminderTrigger == now \in ReminderInstants /\ RemBegin(1)
ReplyAfterReminder == now \in ReminderInstants /\ Doing(GoStudy)
FeedbackTrigger == now \in FeedbackInstants /\ FbBegin(1)
SummaryTrigger(i) == now \in SummaryInstants /\ AggBegin(i)

NextAgg ==
    \/ ReminderTrigger \/ RemClaim(1) \/ RemSend(1)
    \/ ReplyAfterReminder
    \/ FeedbackTrigger \/ FbSelect(1) \/ FbReserve(1) \/ FbGenerate(1) \/ FbSend(1) \/ FbWrite(1)
    \/ \E i \in Sweepers :
          \/ SummaryTrigger(i) \/ AggCount(i) \/ AggStats(i) \/ AggWrite(i) \/ AggReserve(i)
          \/ AggGenerate(i) \/ AggGenerateFails(i) \/ AggSend(i) \/ AggSendFails(i)
          \/ AggRollback(i) \/ AggSendBase(i) \/ AggSendBaseFails(i)
    \/ TickAgg

SpecAgg == InitAgg /\ [][NextAgg]_vars

(* ---------------------- the aggregator's claims --------------------- *)

\* C6: a daily-summary invocation that finds last_summary_date equal to the
\* local date it runs for is a no-op: up to and including its read of the
\* stats row it changes neither user_stats nor the quota row nor the messages
\* sent, and from that read it returns without going on to the write.
SummaryReinvocationNoOp ==
    [][\A i \in Sweepers :
          /\ (aggPc[i] \in {"idle", "count", "stats"} /\ aggPc'[i] # aggPc[i])
                => /\ user_stats' = user_stats
                   /\ users' = users
                   /\ outbox' = outbox
          /\ (/\ aggPc[i] = "stats" /\ aggPc'[i] # aggPc[i]
              /\ user_stats.last_summary_date = aggLoc[i].userDate)
                => aggPc'[i] = "idle"]_vars

\* a second invocation was gated on a day whose summary was written and sent once
SummaryGatedSeen ==
    \E d \in Dates :
        /\ audit.gated[d]
        /\ audit.aggWrites[d] = 1
        /\ outbox.summaries[d] = 1
        /\ user_stats.last_summary_date = d
        /\ \A i \in Sweepers : aggPc[i] = "idle"

\* C7: for every local date the stats row is written at most once and the
\* summary message is sent at most once, whatever invocations overlap.
AggregatorOncePerDay ==
    \A d \in Dates : audit.aggWrites[d] <= 1 /\ outbox.summaries[d] <= 1

\* C8: the write of one run, relative to the row that run read: on a success
\* the streak is the old one plus 1 if the last success was the day before and
\* 1 otherwise, and the last success becomes the run's date; on a failure the
\* streak becomes 0 and the last success date stays as it is.
StreakTransition ==
    [][\A i \in Sweepers :
          (aggPc[i] = "write" /\ aggPc'[i] # aggPc[i])
             => IF aggLoc[i].success
                THEN /\ user_stats'.current_streak =
                           IF aggLoc[i].read.last_success_date = aggLoc[i].userDate - 1
                           THEN aggLoc[i].read.current_streak + 1
                           ELSE 1
                     /\ user_stats'.last_success_date = aggLoc[i].userDate
                ELSE /\ user_stats'.current_streak = 0
                     /\ user_stats'.last_success_date = user_stats.last_success_date]_vars

\* success on day 1, success on day 2, failure on day 3: streak 0, longest still 2
StreakScenarioSeen ==
    /\ user_stats.exists
    /\ user_stats.current_streak = 0
    /\ user_stats.longest_streak = 2
    /\ user_stats.last_success_date = 2
    /\ user_stats.last_summary_date = 3
    /\ tasks[1].praised /\ tasks[2].praised /\ tasks[3].scolded

\* C9: no step lowers longest_streak, and after every step
\* longest_streak >= current_streak.
LongestStreakRetained ==
    [][/\ user_stats'.longest_streak >= user_stats.longest_streak
       /\ user_stats'.longest_streak >= user_stats'.current_streak]_vars

\* C39: in every reachable state of user_stats, if last_success_date equals
\* last_summary_date (both set) then current_streak >= 1, also after two
\* overlapping daily-summary invocations that read different praised counts
\* for the same user and date.
StreakOfSuccessDay ==
    (/\ user_stats.exists
     /\ user_stats.last_summary_date # NullDate
     /\ user_stats.last_success_date = user_stats.last_summary_date)
        => user_stats.current_streak >= 1

(* ------------- specification: concurrent /stuck requests -------------- *)

\* rows the user can hold when the requests arrive: the /stuck counter used on
\* an earlier day or today, the AI quota used on an earlier day or almost spent
StuckRows(today) ==
    { [NewUser EXCEPT !.stuck_count = r[1], !.stuck_reset_date = r[2],
                      !.ai_calls_today = q[1], !.ai_reset_date = q[2]] :
        r \in { << 4, today - 1 >>, << 3, today >>, << 4, today >> },
        q \in { << 7, today - 1 >>, << AI_DAILY_LIMIT - 1, today >> } }

InitStuck ==
    /\ InitHandlers
    /\ now = At(1, 12, 0)
    /\ users \in StuckRows(1)
    /\ tasks = OneTaskADay
    /\ user_stats = NoStats
    /\ calls = NoCalls
    /\ start = [row |-> users, today |-> getUserDate(users.timezone_offset)]

NextStuck ==
    \E i \in Sweepers :
        \/ StuckBegin(i) \/ StuckRead(i) \/ StuckLimit(i) \/ StuckReserve(i)
        \/ StuckGenerate(i) \/ StuckGenerateFails(i) \/ StuckSend(i) \/ StuckSendFails(i)
        \/ StuckRollback(i) \/ StuckReply(i)

SpecStuck == InitStuck /\ [][NextStuck]_vars


\* C11: on one local day the counter for that day is its value before the
\* requests plus the Reserves that succeeded minus the Rollbacks made: a
\* Reserve followed by its Rollback changes nothing in sum, a Reserve without
\* Rollback leaves the counter one higher; and one Rollback step takes exactly
\* one off a counter that a Reserve raised.
ReserveRollbackNetZero ==
    /\ countFor(users, start.today)
          = usedAtStart + audit.quotaReserved - audit.quotaRolledBack
    /\ audit.quotaRolledBack <= audit.quotaReserved

\* a request reserved and rolled back and the counter is where it started,
\* after another request reserved, was answered and left the counter one higher
ReserveRollbackSeen ==
    /\ audit.quotaReserved = 2
    /\ audit.quotaRolledBack = 1
    /\ countFor(users, start.today) = usedAtStart + 1
    /\ \A i \in Sweepers : stuckPc[i] = "idle"

\* C12: Rollback is invoked only when the generation step failed: a handler
\* comes to its rollbackAIQuota call from the generator call alone, never from
\* a later step (the message send) reached after the generator had returned.
RollbackOnlyAfterFailedGeneration ==
    [][\A i \in Sweepers :
          /\ (fbPc'[i] = "rollback" /\ fbPc[i] # "rollback") => fbPc[i] = "generate"
          /\ (aggPc'[i] = "rollback" /\ aggPc[i] # "rollback") => aggPc[i] = "generate"
          /\ (stuckPc'[i] = "rollback" /\ stuckPc[i] # "rollback")
                => stuckPc[i] = "generate"]_vars

\* the /stuck counter as it counts for `today` when the requests arrived
stuckUsedAtStart ==
    IF start.row.stuck_reset_date = start.today THEN start.row.stuck_count ELSE 0

\* C13: on one local day at most 5 /stuck requests pass checkStuckRateLimit,
\* those counted before the requests arrived included, also when requests are
\* handled concurrently, and the stored stuck_count never exceeds 5.
StuckAtMostLimit ==
    /\ stuckUsedAtStart + audit.stuckPassed <= STUCK_LIMIT
    /\ users.stuck_count <= STUCK_LIMIT

(* ------ specification: reminder sweeps around local midnight ---------- *)

\* "Task Reminder | Every 5 min": the longest gap between two sweeps, in minutes
ReminderCadence == 5

\* scheduled (date, time) of tasks next to the midnight between day 1 and day 2
EdgeSlots ==
    { << 1, << 23, 57 >> >>, << 1, << 23, 58 >> >>, << 1, << 23, 59 >> >>,
      << 2, << 0, 0 >> >>, << 2, << 0, 1 >> >>, << 2, << 0, 2 >> >> }

CoverageFirst == At(1, 23, 45)
CoverageLast == At(2, 0, 12)

InitCoverage ==
    /\ InitHandlers
    /\ now = CoverageFirst
    /\ users = NewUser
    /\ tasks \in { [t \in TaskIds |-> NewTask(slot[t][1], slot[t][2], StudyGo)] :
                     slot \in [TaskIds -> EdgeSlots] }
    /\ user_stats = NoStats
    /\ InitNoCalls

\* the external trigger fires d minutes after the previous sweep, d within the
\* cadence, and the handler reads the users
SweepAt(d) ==
    /\ remPc[1] = "idle"
    /\ now + d <= CoverageLast
    /\ now' = now + d
    /\ remPc' = [remPc EXCEPT ![1] = "claim"]
    /\ remLoc' = [remLoc EXCEPT ![1] = [RemIdle EXCEPT !.offset = users.timezone_offset]]
    /\ UNCHANGED <<doingLoc, user_events, evPc, evLoc, stuckPc, stuckLoc, cron, serverOffset, users, tasks, user_stats, calls, start,
                   fbPc, fbLoc, aggPc, aggLoc, outbox, audit>>

NextCoverage ==
    \/ \E d \in 1..ReminderCadence : SweepAt(d)
    \/ RemClaim(1)
    \/ RemSend(1)
    \/ RemSendFails(1)

SpecCoverage == InitCoverage /\ [][NextCoverage]_vars

\* no sweep from now on can select task t: its date is over, or the lower bound
\* userMinutes - 2 of the window has passed its time
pastReminderWindow(t) ==
    \/ getUserDate(users.timezone_offset) > tasks[t].task_date
    \/ /\ getUserDate(users.timezone_offset) = tasks[t].task_date
       /\ reminderLow(getUserMinutes(users.timezone_offset)) > taskMinutes(t)

\* C14: with reminder sweeps at most 5 minutes apart, every task is selected
\* and claimed by a sweep on its scheduled local date, whatever its time of
\* day: once no sweep can select the task any more, a sweep has claimed it.
ReminderCoverage ==
    \A t \in TaskIds :
        (remPc[1] = "idle" /\ pastReminderWindow(t)) => audit.claims[t] >= 1

(* --------------- specification: the daily reset over days -------------- *)

\* the states of a task row the handlers leave: new, reminded and answered,
\* praised, scolded without an answer
RowStates ==
    { [reminder_sent |-> FALSE, user_response |-> NullResponse, praised |-> FALSE, scolded |-> FALSE],
      [reminder_sent |-> TRUE, user_response |-> ResponseOf(GoStudy), praised |-> FALSE, scolded |-> FALSE],
      [reminder_sent |-> TRUE, user_response |-> ResponseOf(GoStudy), praised |-> TRUE, scolded |-> FALSE],
      [reminder_sent |-> TRUE, user_response |-> NullResponse, praised |-> FALSE, scolded |-> TRUE] }

\* a task row of date d in state st
RowAt(d, st) ==
    [NewTask(d, << 9, 0 >>, StudyGo) EXCEPT !.reminder_sent = st.reminder_sent,
                                           !.user_response = st.user_response,
                                           !.praised = st.praised, !.scolded = st.scolded]

\* "Daily Reset | Midnight": the instants of the trigger, one per day
ResetInstants == { At(d, 0, 0) : d \in 1..MaxDay }

InitReset ==
    /\ InitHandlers
    /\ now = At(1, 0, 0)
    /\ users = NewUser
    /\ tasks \in { [t \in TaskIds |-> RowAt(d[t], st[t])] :
                     d \in [TaskIds -> 1..MaxDay], st \in [TaskIds -> RowStates] }
    /\ user_stats = NoStats
    /\ calls = NoCalls
    /\ start = [row |-> users, today |-> getUserDate(users.timezone_offset), tasks |-> tasks]

TickReset ==
    /\ TickIn(ResetInstants)
    /\ UNCHANGED <<doingLoc, user_events, evPc, evLoc, stuckPc, stuckLoc, cron, serverOffset, users, tasks, user_stats, calls, start,
                   remPc, remLoc, fbPc, fbLoc, aggPc, aggLoc, outbox, audit>>

NextReset == DailyReset \/ TickReset

SpecReset == InitReset /\ [][NextReset]_vars

\* C18: a daily reset sets reminder_sent, praised and scolded to false and the
\* response to null on every task dated before the user's current local date
\* and keeps the row; tasks dated today or later are left as they are; a
\* second run right after changes nothing.
DailyRollover ==
    [][now' = now =>
          LET userDate == getUserDate(users.timezone_offset)
          IN  /\ \A t \in TaskIds :
                    IF tasks[t].task_date < userDate
                    THEN /\ tasks'[t].reminder_sent = FALSE
                         /\ tasks'[t].praised = FALSE
                         /\ tasks'[t].scolded = FALSE
                         /\ tasks'[t].user_response = NullResponse
                         /\ tasks'[t].task_date = tasks[t].task_date
                         /\ tasks'[t].task_time = tasks[t].task_time
                         /\ tasks'[t].task_name = tasks[t].task_name
                    ELSE tasks'[t] = tasks[t]
              /\ dailyResetRows(tasks', userDate) = tasks']_vars

\* a scolded task of an earlier day was reset and kept, while a praised task
\* of the current day still is praised
DailyRolloverSeen ==
    \E t, u \in TaskIds :
        /\ start.tasks[t].scolded /\ start.tasks[t].task_date < getUserDate(users.timezone_offset)
        /\ ~tasks[t].scolded /\ ~tasks[t].reminder_sent
        /\ tasks[t].task_date = start.tasks[t].task_date
        /\ tasks[u].task_date = getUserDate(users.timezone_offset)
        /\ tasks[u].praised /\ tasks[u].user_response = ResponseOf(GoStudy)

(* --------------- specification: requests to the cron routes ------------ *)

InitCron ==
    /\ InitHandlers
    /\ now = At(1, 9, 0)
    /\ users = NewUser
    /\ tasks = OneTaskADay
    /\ user_stats = NoStats
    /\ InitNoCalls

NextCron ==
    \/ \E secret \in Secrets : ServerStart(secret)
    \/ \E route \in Routes, header \in Headers : CronRequest(route, header)
    \/ CronSelect
    \/ CronSelectFails
    \/ CronUser
    \/ CronUserFails
    \/ CronRespond

SpecCron == InitCron /\ [][NextCron]_vars

\* the users still ahead in the loop
queued == { cron.queue[k] : k \in DOMAIN cron.queue }

\* C19: in every sweep a store error while one user is processed does not keep
\* the other users from being processed, and the invocation still completes:
\* while the loop runs every user is processed, failed or still ahead; the
\* loop is left only with the answer 200, and then every user was processed
\* or failed on its own.
FailureIsolation ==
    /\ [](cron.status \in { "running", "200" } =>
             /\ cron.served \cup cron.failed \cup queued = UserIds
             /\ cron.served \cap cron.failed = {}
             /\ cron.status = "200" => queued = {})
    /\ [][cron.status = "running" => cron'.status \in { "running", "200" }]_vars

\* a sweep answered 200 although the store failed for user 1: the later users
\* were processed
FailureIsolationSeen ==
    /\ cron.status = "200"
    /\ cron.failed = { 1 }
    /\ cron.served = UserIds \ { 1 }

\* C20: a request to a sweep route whose x-cron-secret header does not carry
\* the shared secret, also one with no such header, in every configuration of
\* the server, is answered 401 and no user is processed for it.
SweepAuthenticated ==
    (/\ cron.status \notin { "down", "listening" }
     /\ (cron.header.isUndefined \/ cron.header # cron.secret))
        => /\ cron.status = "401"
           /\ cron.served = {} /\ cron.failed = {} /\ cron.queue = << >>

(* ------------- specification: the resolver over its inputs ----------- *)

\* what /timezone is sent: the ends of the accepted range, values next to
\* them, and offsets in between
OffsetInputs == { -721, -720, -330, -1, 0, 1, 330, 840, 841 }

\* now.getTimezoneOffset() of the server process: UTC, UTC+5:30, UTC-5
ServerOffsets == { 0, -330, 300 }

\* instants next to the UTC day boundary and inside the day
ResolverInstants ==
    { At(d, hm[1], hm[2]) :
        d \in 1..MaxDay,
        hm \in { << 0, 0 >>, << 0, 1 >>, << 5, 29 >>, << 5, 30 >>, << 10, 0 >>,
                 << 12, 0 >>, << 18, 30 >>, << 23, 59 >> } }

NotResolved == [row |-> NewUser, today |-> NullDate, minutes |-> 0, resolved |-> FALSE]

InitResolver ==
    /\ InitIdle
    /\ serverOffset \in ServerOffsets
    /\ now = At(1, 0, 0)
    /\ users = NewUser
    /\ tasks = OneTaskADay
    /\ user_stats = NoStats
    /\ calls = NoCalls
    /\ start = NotResolved

\* a handler calls getUserDate(user.timezone_offset) and getUserMinutes(...)
Resolve ==
    /\ start' = [row |-> users, today |-> getUserDate(users.timezone_offset),
                 minutes |-> getUserMinutes(users.timezone_offset), resolved |-> TRUE]
    /\ UNCHANGED <<doingLoc, user_events, evPc, evLoc, now, serverOffset, users, tasks, user_stats, calls,
                   remPc, remLoc, fbPc, fbLoc, aggPc, aggLoc, stuckPc, stuckLoc, cron,
                   outbox, audit>>

TickResolver ==
    /\ TickIn(ResolverInstants)
    /\ start' = NotResolved
    /\ UNCHANGED <<doingLoc, user_events, evPc, evLoc, serverOffset, users, tasks, user_stats, calls,
                   remPc, remLoc, fbPc, fbLoc, aggPc, aggLoc, stuckPc, stuckLoc, cron,
                   outbox, audit>>

NextResolver ==
    \/ \E offset \in OffsetInputs : Timezone(offset)
    \/ Resolve
    \/ TickResolver

SpecResolver == InitResolver /\ [][NextResolver]_vars

\* C21: for every instant t and every stored offset o, which lies in
\* [-720, 840], the resolved minutes-of-day is in [0, 1440), the resolved date
\* differs from the UTC date of t by at most one day, and date and minutes are
\* those of t + o minutes, whatever the time zone of the server process.
ResolverLocalTime ==
    /\ users.timezone_offset >= -720 /\ users.timezone_offset <= 840
    /\ (start.resolved /\ start.row = users) =>
          /\ start.minutes >= 0 /\ start.minutes < MinutesPerDay
          /\ start.today - isoDate(now) \in { -1, 0, 1 }
          /\ start.today = (now + users.timezone_offset) \div MinutesPerDay
          /\ start.minutes = (now + users.timezone_offset) % MinutesPerDay

(* ------------- specification: the success of a day -------------------- *)

\* largest number of tasks of a day given to isSuccessfulDay
MaxPlanned == 10

\* a task of day 1 or of day 2, open or praised
DayRows ==
    { RowAt(d, st) : d \in { 1, 2 },
                     st \in { r \in RowStates : ~r.scolded /\ (r.praised \/ ~r.reminder_sent) } }

InitSuccess ==
    /\ InitHandlers
    /\ now = At(1, 23, 0)
    /\ users = NewUser
    /\ tasks \in [TaskIds -> DayRows]
    /\ user_stats = NoStats
    /\ calls = NoCalls
    /\ \E planned \in 0..MaxPlanned : \E completed \in 0..planned :
          start = [row |-> users, today |-> getUserDate(users.timezone_offset),
                   planned |-> planned, completed |-> completed,
                   success |-> FALSE, judged |-> FALSE]

\* const success = isSuccessfulDay(planned, completed), on the counts drawn
JudgeDay ==
    /\ ~start.judged
    /\ start' = [start EXCEPT !.success = isSuccessfulDay(start.planned, start.completed),
                              !.judged = TRUE]
    /\ UNCHANGED <<doingLoc, user_events, evPc, evLoc, now, serverOffset, users, tasks, user_stats, calls,
                   remPc, remLoc, fbPc, fbLoc, aggPc, aggLoc, stuckPc, stuckLoc, cron,
                   outbox, audit>>

NextSuccess ==
    \/ JudgeDay
    \/ AggBegin(1) \/ AggCount(1) \/ AggStats(1) \/ AggWrite(1) \/ AggReserve(1)
    \/ AggGenerate(1) \/ AggGenerateFails(1) \/ AggSend(1) \/ AggSendFails(1)
    \/ AggRollback(1) \/ AggSendBase(1) \/ AggSendBaseFails(1)

SpecSuccess == InitSuccess /\ [][NextSuccess]_vars

\* the user's tasks of the local date, and those of them that are praised
tasksOf(date) == { t \in TaskIds : tasks[t].task_date = date }
praisedOf(date) == { t \in tasksOf(date) : tasks[t].praised }

\* C22: with planned = the number of the user's tasks of the local date and
\* completed = the number of those that are praised, the day is a success iff
\* 10 * completed >= 7 * planned; a user with planned = 0 is skipped: no
\* stats row is written, no quota is reserved and no message is sent.
DailySuccess ==
    /\ [](/\ start.judged =>
               (start.success <=> (start.planned > 0 /\ 10 * start.completed >= 7 * start.planned))
          /\ tasksOf(start.today) = {} =>
               (user_stats = NoStats /\ users = NewUser /\ outbox = NoOutbox))
    /\ [][(aggPc[1] = "count" /\ aggPc'[1] # "count") =>
             LET planned == Cardinality(tasksOf(getUserDate(aggLoc[1].offset)))
                 completed == Cardinality(praisedOf(getUserDate(aggLoc[1].offset)))
             IN  IF planned = 0
                 THEN aggPc'[1] = "idle" /\ UNCHANGED <<users, user_stats, outbox>>
                 ELSE /\ aggPc'[1] = "stats"
                      /\ aggLoc'[1].planned = planned /\ aggLoc'[1].completed = completed
                      /\ aggLoc'[1].success <=> 10 * completed >= 7 * planned]_vars

\* 7 of 10 tasks completed is judged a success, and a summary invocation for
\* a day without tasks was skipped and left no trace
DailySuccessSeen ==
    /\ start.judged /\ start.planned = 10 /\ start.completed = 7 /\ start.success
    /\ audit.skipped[start.today] /\ aggPc[1] = "idle"
    /\ user_stats = NoStats /\ users = NewUser /\ outbox = NoOutbox

(* ------------- specification: the once-per-day events ----------------- *)

\* "Morning Start | 7:00 AM" and "Plan Reminder | 10:00 PM", user local time
EventClock ==
    { At(d, 7, 0) : d \in 1..MaxDay } \cup { At(d, 22, 0) : d \in 1..MaxDay }

eventOfInstant == IF now \in { At(d, 7, 0) : d \in 1..MaxDay } THEN "morning_start"
                                                                 ELSE "plan_reminder"

InitEvents ==
    /\ InitHandlers
    /\ now = At(1, 7, 0)
    /\ users \in { NewUser,
                   [NewUser EXCEPT !.ai_calls_today = AI_DAILY_LIMIT - 1,
                                   !.ai_reset_date = 1] }
    /\ tasks = OneTaskADay
    /\ user_stats = NoStats
    /\ InitNoCalls

\* the invocations of an instant return before the next trigger instant;
\* what was observed at the instant is dropped: the counts are per instant
TickEvents ==
    /\ \A i \in Sweepers : evPc[i] = "idle"
    /\ TickIn(EventClock)
    /\ outbox' = NoOutbox
    /\ audit' = NoAudit
    /\ UNCHANGED <<doingLoc, serverOffset, users, tasks, user_stats, calls, start,
                   remPc, remLoc, fbPc, fbLoc, aggPc, aggLoc, stuckPc, stuckLoc, cron,
                   user_events, evPc, evLoc>>

EventTrigger(i) == EvBegin(i, eventOfInstant)

NextEvents ==
    \/ \E i \in Sweepers :
          \/ EventTrigger(i) \/ EvCheck(i) \/ EvMark(i) \/ EvReserve(i)
          \/ EvGenerate(i) \/ EvGenerateFails(i) \/ EvSend(i) \/ EvSendFails(i)
          \/ EvRollback(i) \/ EvSendPlain(i) \/ EvSendPlainFails(i)
    \/ TickEvents

SpecEvents == InitEvents /\ [][NextEvents]_vars

\* C24: each once-per-day event (morning_start, plan_reminder) fires at most
\* once per user and local date: at most one message of the type is sent and
\* at most one quota Reserve is made, also when the trigger is invoked twice
\* concurrently.
EventOncePerDay ==
    \A ty \in EventTypes : \A d \in Dates :
        /\ outbox.events[ty][d] <= 1
        /\ audit.eventReserves[ty][d] <= 1

(* ------------- specification: the two sweeps' windows ------------------ *)

\* the times of day planned for the twin tasks: early, mid-day, late
WindowTimes == { << 0, 2 >>, << 9, 0 >>, << 23, 50 >> }

\* tasks 1 and 2 are planned for the same time of day 1; task 1 has been
\* claimed by a reminder sweep, task 2 was added after that sweep and is
\* unreminded; the other tasks are planned for the same time of later days
WindowTasks(time) ==
    [t \in TaskIds |->
        IF t = 1 THEN [NewTask(1, time, StudyGo) EXCEPT !.reminder_sent = TRUE]
        ELSE NewTask(IF t = 2 THEN 1 ELSE t - 1, time, StudyGo)]

\* every minute from the first at which the reminder sweep can claim the twins
\* until after the last at which the feedback sweep can select them
WindowClock ==
    { n \in At(1, 0, 0)..At(2, 0, 30) :
        /\ n >= At(1, 0, 0) + taskMinutes(1) - reminderHigh(0)
        /\ n <= At(1, 0, 0) + taskMinutes(1) - feedbackLow(0) + 2 }

InitWindows ==
    /\ InitHandlers
    /\ \E time \in WindowTimes :
          /\ tasks = WindowTasks(time)
          /\ now = IF hhmmMinutes(time) >= reminderHigh(0)
                    THEN At(1, 0, 0) + hhmmMinutes(time) - reminderHigh(0)
                    ELSE At(1, 0, 0)
    /\ users \in { NewUser,
                   [NewUser EXCEPT !.ai_calls_today = AI_DAILY_LIMIT, !.ai_reset_date = 1] }
    /\ user_stats = NoStats
    /\ InitNoCalls

\* the clock moves one minute on while no sweep is running
TickWindows ==
    /\ remPc[1] = "idle" /\ fbPc[1] = "idle"
    /\ TickIn(WindowClock)
    /\ UNCHANGED <<doingLoc, user_events, evPc, evLoc, stuckPc, stuckLoc, cron, serverOffset, users, tasks, user_stats, calls, start,
                   remPc, remLoc, fbPc, fbLoc, aggPc, aggLoc, outbox, audit>>

NextWindows ==
    \/ RemBegin(1) \/ RemClaim(1) \/ RemSend(1) \/ RemSendFails(1)
    \/ FbBegin(1) \/ FbSelect(1) \/ FbReserve(1) \/ FbScoldQuota(1)
    \/ FbGenerate(1) \/ FbGenerateFails(1) \/ FbSend(1) \/ FbSendFails(1)
    \/ FbWrite(1) \/ FbRollback(1) \/ FbScoldFail(1)
    \/ TickWindows

SpecWindows == InitWindows /\ [][NextWindows]_vars

\* tasks planned for the same date and time of day
twins(t, u) ==
    tasks[t].task_date = tasks[u].task_date /\ tasks[t].task_time = tasks[u].task_time

\* the feedback sweep has selected task u: it holds it or has written its end
selectedForFeedback(u) ==
    tasks[u].praised \/ tasks[u].scolded \/ \E i \in Sweepers : fbHolds(i, u)

\* C28: every local time at which the feedback sweep can select a task is
\* strictly later than every local time at which the reminder sweep can claim
\* it: at the minute of a selection the reminder window does not hold the
\* task's time, and no task is claimed once one planned for the same date and
\* time has been selected.
FeedbackAfterReminder ==
    [][\A t, u \in TaskIds :
          twins(t, u) =>
             /\ (selectedForFeedback(u)' /\ ~selectedForFeedback(u))
                   => ~(/\ taskMinutes(t) >= reminderLow(getUserMinutes(users.timezone_offset))
                        /\ taskMinutes(t) <= reminderHigh(getUserMinutes(users.timezone_offset)))
             /\ (tasks'[t].reminder_sent /\ ~tasks[t].reminder_sent)
                   => ~selectedForFeedback(u)]_vars

\* a task was claimed at the last minute of the reminder window and the one
\* planned for the same time has been selected by the feedback sweep
FeedbackAfterReminderSeen ==
    /\ audit.claims[2] = 1
    /\ selectedForFeedback(1)
    /\ now = At(1, 0, 0) + taskMinutes(1) - feedbackHigh(0)

(* ------ specification: the aggregator at any hour, with /timezone ------ *)

\* the offsets the user sets with /timezone: the two ends of the range and UTC
LocalityOffsets == { -720, 0, 840 }

\* one task a day, planned for 09:00, from day 0 on
LocalityTasks ==
    [t \in TaskIds |-> NewTask(t - 1, << 9, 0 >>, StudyGo)]

\* the instants at which the external trigger calls the route: 23:00 local at
\* offset 840, at offset -720 and at offset 0, and noon UTC
LocalityClock ==
    { At(d, h, 0) : d \in 1..MaxDay, h \in { 9, 11, 12, 23 } }

InitLocality ==
    /\ InitHandlers
    /\ now = At(1, 9, 0)
    /\ users \in { [NewUser EXCEPT !.timezone_offset = o] : o \in LocalityOffsets }
    /\ tasks = LocalityTasks
    /\ user_stats = NoStats
    /\ InitNoCalls

\* the user sends /timezone between two invocations of the route
LocalityTimezone(offset) ==
    /\ aggPc[1] = "idle"
    /\ outbox = NoOutbox /\ audit = NoAudit
    /\ Timezone(offset)

TickLocality ==
    /\ aggPc[1] = "idle"
    /\ TickIn(LocalityClock)
    /\ outbox' = NoOutbox
    /\ audit' = NoAudit
    /\ UNCHANGED <<doingLoc, user_events, evPc, evLoc, stuckPc, stuckLoc, cron, serverOffset, users, tasks, user_stats, calls, start,
                   remPc, remLoc, fbPc, fbLoc, aggPc, aggLoc>>

NextLocality ==
    \/ AggBegin(1) \/ AggCount(1) \/ AggStats(1) \/ AggWrite(1) \/ AggReserve(1)
    \/ AggGenerate(1) \/ AggGenerateFails(1) \/ AggSend(1) \/ AggSendFails(1)
    \/ AggRollback(1) \/ AggSendBase(1) \/ AggSendBaseFails(1)
    \/ \E offset \in LocalityOffsets : LocalityTimezone(offset)
    \/ TickLocality

SpecLocality == InitLocality /\ [][NextLocality]_vars

\* the local hour of the user the aggregator is serving
localHour(offset) == getUserMinutes(offset) \div MinutesPerHour

\* C29: the daily aggregator re-verifies locality: an invocation at which the
\* user's local time is not near the end of the day (noon, say) computes no
\* streak, writes no user_stats row and sets no last_summary_date.
AggregatorOnlyAtDayEnd ==
    [][user_stats' # user_stats => localHour(aggLoc[1].offset) = HoursPerDay - 1]_vars

\* C30: last_summary_date advances monotonically, also when /timezone moves
\* the user's local date backwards between two runs of the aggregator.
SummaryDateMonotone ==
    [][user_stats'.last_summary_date >= user_stats.last_summary_date]_vars

(* ------------- specification: the aggregator crashes and is retried ---- *)

\* one task a day from day 1 on, planned for 09:00; those of the days in
\* `done` are praised
CrashTasks(done) ==
    [t \in TaskIds |-> [NewTask(t, << 9, 0 >>, StudyGo) EXCEPT !.praised = (t \in done)]]

InitCrash ==
    /\ InitHandlers
    /\ now = At(1, 23, 0)
    /\ users = NewUser
    /\ \E done \in SUBSET TaskIds : tasks = CrashTasks(done)
    /\ user_stats = NoStats
    /\ InitNoCalls

\* the process dies while the handler serves the user: between two awaits of
\* lines 786-834 nothing more of the handler is executed
AggCrash(i) ==
    /\ aggPc[i] # "idle"
    /\ aggPc' = [aggPc EXCEPT ![i] = "idle"]
    /\ aggLoc' = [aggLoc EXCEPT ![i] = AggIdle]
    /\ audit' = [audit EXCEPT !.crashed[getUserDate(aggLoc[i].offset)] = TRUE]
    /\ UNCHANGED <<doingLoc, user_events, evPc, evLoc, stuckPc, stuckLoc, cron, now, serverOffset, users, tasks, user_stats, calls, start,
                   remPc, remLoc, fbPc, fbLoc, outbox>>

\* the next day's 23:00, once the handler is not running
TickCrash ==
    /\ aggPc[1] = "idle"
    /\ TickIn(SummaryInstants)
    /\ UNCHANGED <<doingLoc, user_events, evPc, evLoc, stuckPc, stuckLoc, cron, serverOffset, users, tasks, user_stats, calls, start,
                   remPc, remLoc, fbPc, fbLoc, aggPc, aggLoc, outbox, audit>>

\* the trigger calls the route again while the day's summary has not been
\* delivered
CrashRetry ==
    /\ outbox.summaries[getUserDate(users.timezone_offset)] = 0
    /\ AggBegin(1)

NextCrash ==
    \/ CrashRetry \/ AggCount(1) \/ AggStats(1) \/ AggWrite(1) \/ AggReserve(1)
    \/ AggGenerate(1) \/ AggGenerateFails(1) \/ AggSend(1) \/ AggSendFails(1)
    \/ AggRollback(1) \/ AggSendBase(1) \/ AggSendBaseFails(1)
    \/ AggCrash(1)
    \/ TickCrash

SpecCrash == InitCrash /\ [][NextCrash]_vars

\* C31: crash atomicity of the aggregator: whenever the handler crashes
\* between reading the stats and finishing, user_stats is entirely the state
\* before the run or entirely the state after it (streak fields and
\* last_summary_date change together, in one step), and a retry after the
\* crash writes no second time for the same local date, so current_streak is
\* not incremented twice for it.
CrashAtomicity ==
    /\ [](\A d \in Dates : audit.aggWrites[d] <= 1)
    /\ [][user_stats' # user_stats =>
            LET d == getUserDate(users.timezone_offset)
                cs == nextStreak(user_stats, d)
            IN  /\ user_stats'.exists
                /\ user_stats'.last_summary_date = d
                /\ IF isSuccessfulDay(plannedCount(d), completedCount(d))
                   THEN /\ user_stats'.last_success_date = d
                        /\ user_stats'.current_streak = cs
                        /\ user_stats'.longest_streak = nextLongest(user_stats.longest_streak, cs)
                   ELSE /\ user_stats'.last_success_date = user_stats.last_success_date
                        /\ user_stats'.current_streak = 0
                        /\ user_stats'.longest_streak = user_stats.longest_streak]_vars

\* the handler crashed on the second day of a streak after its upsert, and
\* the retry stopped at the gate
CrashAtomicitySeen ==
    \E d \in Dates :
        /\ audit.crashed[d] /\ audit.gated[d]
        /\ audit.aggWrites[d] = 1
        /\ user_stats.current_streak = 2
        /\ user_stats.last_summary_date = d

(* ------------- specification: a task's flags over its day -------------- *)

\* the times the user moves a task to with "edit"
EditTimes == { << 9, 0 >>, << 9, 2 >> }

\* day 1: the reminder sweep, the feedback sweep, the summary; day 2: the
\* reset after local midnight and the next reminder sweep
FlagsClock == { At(1, 9, 0), At(1, 9, 5), At(1, 23, 0), At(2, 0, 0), At(2, 9, 0) }

InitFlags ==
    /\ InitHandlers
    /\ now = At(1, 9, 0)
    /\ users \in { NewUser,
                   [NewUser EXCEPT !.ai_calls_today = AI_DAILY_LIMIT - 1,
                                   !.ai_reset_date = 1] }
    /\ tasks = OneTaskADay
    /\ user_stats = NoStats
    /\ InitNoCalls

TickFlags ==
    /\ remPc[1] = "idle" /\ fbPc[1] = "idle" /\ aggPc[1] = "idle"
    /\ TickIn(FlagsClock)
    /\ outbox' = NoOutbox
    /\ audit' = NoAudit
    /\ UNCHANGED <<doingLoc, user_events, evPc, evLoc, stuckPc, stuckLoc, cron, serverOffset, users, tasks, user_stats, calls, start,
                   remPc, remLoc, fbPc, fbLoc, aggPc, aggLoc>>

\* the summary route is called while the day's summary has not been delivered
FlagsSummary ==
    /\ outbox.summaries[getUserDate(users.timezone_offset)] = 0
    /\ AggBegin(1)

NextFlags ==
    \/ RemBegin(1) \/ RemClaim(1) \/ RemSend(1) \/ RemSendFails(1)
    \/ \E r \in Responses : Doing(r)
    \/ \E t \in TaskIds, time \in EditTimes, name \in TaskNames : Edit(t, time, name)
    \/ FbBegin(1) \/ FbSelect(1) \/ FbReserve(1) \/ FbScoldQuota(1)
    \/ FbGenerate(1) \/ FbGenerateFails(1) \/ FbSend(1) \/ FbSendFails(1)
    \/ FbWrite(1) \/ FbRollback(1) \/ FbScoldFail(1)
    \/ FlagsSummary \/ AggCount(1) \/ AggStats(1) \/ AggWrite(1) \/ AggReserve(1)
    \/ AggGenerate(1) \/ AggGenerateFails(1) \/ AggSend(1) \/ AggSendFails(1)
    \/ AggRollback(1) \/ AggSendBase(1) \/ AggSendBaseFails(1)
    \/ DailyReset
    \/ TickFlags

SpecFlags == InitFlags /\ [][NextFlags]_vars

\* C32: reminded is never reverted within the day: a task's reminder_sent
\* goes from true to false only in a run of the daily reset made while the
\* user's local date is strictly after the task's date; sweeps, replies,
\* edits, feedback and the aggregator leave it true.
RemindedNotReverted ==
    [][\A t \in TaskIds :
          (tasks[t].reminder_sent /\ ~tasks'[t].reminder_sent)
              => /\ tasks[t].task_date < getUserDate(users.timezone_offset)
                 /\ tasks' = dailyResetRows(tasks, getUserDate(users.timezone_offset))]_vars

\* the task of day 1 was reminded, then edited, answered, scolded and
\* summarised: it is still reminded
RemindedNotRevertedSeen ==
    /\ tasks[1].reminder_sent
    /\ tasks[1].task_time = << 9, 2 >>
    /\ ~tasks[1].user_response.isNull
    /\ tasks[1].praised \/ tasks[1].scolded
    /\ user_stats.last_summary_date = 1

(* ------------- specification: overlapping "doing" replies -------------- *)

\* before the day's first task, after both tasks, and the next day's start
DoingClock == { At(1, 8, 58), At(1, 9, 4), At(2, 0, 0), At(2, 9, 4) }

InitDoing ==
    /\ InitHandlers
    /\ now = At(1, 8, 58)
    /\ users = NewUser
    /\ tasks = ReminderTasks
    /\ user_stats = NoStats
    /\ InitNoCalls

TickDoing ==
    /\ \A i \in Sweepers : ~doingLoc[i].busy
    /\ TickIn(DoingClock)
    /\ outbox' = NoOutbox
    /\ audit' = NoAudit
    /\ UNCHANGED <<doingLoc, user_events, evPc, evLoc, stuckPc, stuckLoc, cron, serverOffset, users, tasks, user_stats, calls, start,
                   remPc, remLoc, fbPc, fbLoc, aggPc, aggLoc>>

NextDoing ==
    \/ \E i \in Sweepers :
          \/ \E r \in Responses : DoingSelect(i, r)
          \/ DoingUpdate(i)
    \/ DailyReset
    \/ TickDoing

SpecDoing == InitDoing /\ [][NextDoing]_vars

\* the step is the daily reset clearing task t, dated before the local date
resetOf(t) ==
    /\ tasks[t].task_date < getUserDate(users.timezone_offset)
    /\ tasks' = dailyResetRows(tasks, getUserDate(users.timezone_offset))

\* C33: a task's response is set at most once per day: a reply writes
\* user_response only on a task whose user_response is null, a recorded
\* response is never overwritten by a later or concurrent reply before the
\* reset, a reply never changes reminder_sent, praised or scolded, and with
\* no eligible task nothing is changed and the rejection message is sent.
ResponseSetOnce ==
    [][/\ \A t \in TaskIds :
             /\ (~tasks[t].user_response.isNull
                    /\ tasks'[t].user_response # tasks[t].user_response) => resetOf(t)
             /\ (\/ tasks'[t].reminder_sent # tasks[t].reminder_sent
                 \/ tasks'[t].praised # tasks[t].praised
                 \/ tasks'[t].scolded # tasks[t].scolded) => resetOf(t)
       /\ \A i \in Sweepers :
             (doingLoc[i].busy /\ ~doingLoc'[i].busy /\ doingLoc[i].id = 0)
                 => (tasks' = tasks /\ outbox'.noMatch = outbox.noMatch + 1)]_vars

(* ------ specification: reserve, generate, roll back around midnight ---- *)

\* the callers of reserveAIQuota (feedback sweep, aggregator, morning and plan
\* triggers, /stuck): `inflight` are about to reserve, `succeeded` got true,
\* `failed` got false; audit.held counts, per local date of the Reserve, the
\* callers that got true and have not yet heard from the generator
LedgerCalls == [NoCalls EXCEPT !.inflight = NumCalls]

\* the last minute of day 1 and the first of day 2
LedgerClock == { At(1, 23, 59), At(2, 0, 0) }

InitLedger ==
    /\ InitHandlers
    /\ now = At(1, 23, 59)
    /\ users \in { NewUser, [NewUser EXCEPT !.ai_calls_today = AI_DAILY_LIMIT - 1,
                                            !.ai_reset_date = 1] }
    /\ tasks = OneTaskADay
    /\ user_stats = NoStats
    /\ calls = LedgerCalls
    /\ start = [row |-> users, today |-> getUserDate(users.timezone_offset)]

\* one caller's reserveAIQuota(userId, timezoneOffset): a single statement
LedgerReserve ==
    /\ calls.inflight > 0
    /\ users' = reserveAIQuotaRow(users, users.timezone_offset)
    /\ IF reserveAIQuotaOk(users, users.timezone_offset)
       THEN /\ calls' = [calls EXCEPT !.inflight = @ - 1, !.succeeded = @ + 1]
            /\ audit' = [audit EXCEPT !.held = Bump(@, getUserDate(users.timezone_offset))]
       ELSE /\ calls' = [calls EXCEPT !.inflight = @ - 1, !.failed = @ + 1]
            /\ audit' = audit
    /\ UNCHANGED <<doingLoc, user_events, evPc, evLoc, stuckPc, stuckLoc, cron, now, serverOffset, tasks, user_stats, start,
                   remPc, remLoc, fbPc, fbLoc, aggPc, aggLoc, outbox>>

\* the generator returns its text to a caller whose Reserve was made on date d
LedgerGenerate(d) ==
    /\ audit.held[d] > 0
    /\ audit' = [audit EXCEPT !.held[d] = @ - 1, !.generated[d] = @ + 1]
    /\ UNCHANGED <<doingLoc, user_events, evPc, evLoc, stuckPc, stuckLoc, cron, now, serverOffset, users, tasks, user_stats, calls, start,
                   remPc, remLoc, fbPc, fbLoc, aggPc, aggLoc, outbox>>

\* the generator throws: the caller's catch runs rollbackAIQuota(user.id)
LedgerRollback(d) ==
    /\ audit.held[d] > 0
    /\ users' = rollbackAIQuotaRow(users)
    /\ audit' = [audit EXCEPT !.held[d] = @ - 1, !.quotaRolledBack = 1]
    /\ UNCHANGED <<doingLoc, user_events, evPc, evLoc, stuckPc, stuckLoc, cron, now, serverOffset, tasks, user_stats, calls, start,
                   remPc, remLoc, fbPc, fbLoc, aggPc, aggLoc, outbox>>

TickLedger ==
    /\ TickIn(LedgerClock)
    /\ UNCHANGED <<doingLoc, user_events, evPc, evLoc, stuckPc, stuckLoc, cron, serverOffset, users, tasks, user_stats, calls, start,
                   remPc, remLoc, fbPc, fbLoc, aggPc, aggLoc, outbox, audit>>

NextLedger ==
    \/ LedgerReserve
    \/ \E d \in Dates : LedgerGenerate(d) \/ LedgerRollback(d)
    \/ TickLedger

SpecLedger == InitLedger /\ [][NextLedger]_vars

\* C34: in every reachable state, under any interleaving of Reserve and
\* Rollback calls from all callers, the user's ai_calls_today is at least 0
\* and at most the daily limit of 20.
CounterInRange ==
    users.ai_calls_today >= 0 /\ users.ai_calls_today <= AI_DAILY_LIMIT

\* a Reserve of day 1 was rolled back on day 2, and the counter has since
\* reached the limit and refused a caller
CounterInRangeSeen ==
    /\ audit.quotaRolledBack >= 1
    /\ users.ai_reset_date = 2
    /\ users.ai_calls_today = AI_DAILY_LIMIT
    /\ calls.failed > 0

\* C35: the number of successful text generations made for the user within
\* one local day never exceeds the daily limit of 20, also when a Reserve made
\* before local midnight is rolled back after another caller's Reserve has
\* reset the counter for the new day.
GenerationsWithinLimit ==
    \A d \in Dates : audit.generated[d] <= AI_DAILY_LIMIT

(* ------ specification: a sweep's two clock readings at midnight -------- *)

\* one task a day, planned for 00:01, entered by the user later in the day
ReadingsTasks ==
    [t \in TaskIds |-> NewTask(t, << 0, 1 >>, StudyGo)]

\* the last minute of each day and the first of the next
ReadingsClock ==
    { At(d, 23, 59) : d \in 1..MaxDay } \cup { At(d + 1, 0, 0) : d \in 1..MaxDay }

InitReadings ==
    /\ InitHandlers
    /\ now = At(1, 23, 59)
    /\ users = NewUser
    /\ tasks = ReadingsTasks
    /\ user_stats = NoStats
    /\ InitNoCalls

\* time passes, also between the two readings of a sweep
TickReadings ==
    /\ TickIn(ReadingsClock)
    /\ UNCHANGED <<doingLoc, user_events, evPc, evLoc, stuckPc, stuckLoc, cron, serverOffset, users, tasks, user_stats, calls, start,
                   remPc, remLoc, fbPc, fbLoc, aggPc, aggLoc, outbox, audit>>

NextReadings ==
    \/ \E i \in Sweepers :
          \/ RemBegin(i) \/ RemReadDate(i) \/ RemClaimMinutes(i)
          \/ RemSend(i) \/ RemSendFails(i)
    \/ TickReadings

SpecReadings == InitReadings /\ [][NextReadings]_vars

\* C36: within one sweep's unit of work for a user, the local date and the
\* minutes-since-midnight used to select tasks belong to the same instant: no
\* sweep pairs the date of one clock reading with the minutes of a later
\* reading taken after local midnight has passed.
ReadingsOfOneInstant ==
    [][\A i \in Sweepers :
          (remPc[i] = "minutes" /\ remPc'[i] # "minutes")
              => remLoc[i].userDate = getUserDate(remLoc[i].offset)]_vars

(* ------ specification: feedback sweeps before local midnight ---------- *)

\* scheduled times on day 1 of the tasks, all of them claimed by the reminder
\* sweeps of 23:51 to 23:56
LateSlots == { << 23, 54 >>, << 23, 55 >>, << 23, 57 >>, << 23, 59 >> }

\* the feedback sweep last ran at 23:56
LateFirst == At(1, 23, 56)
LateLast == At(2, 0, 10)

InitLate ==
    /\ InitHandlers
    /\ now = LateFirst
    /\ users = NewUser
    /\ tasks \in { [t \in TaskIds |->
                       [NewTask(1, slot[t], StudyGo) EXCEPT !.reminder_sent = TRUE]] :
                     slot \in [TaskIds -> LateSlots] }
    /\ user_stats = NoStats
    /\ InitNoCalls

\* the external trigger fires d minutes after the previous feedback sweep, d
\* within the cadence, and the handler reads the users
FbSweepAt(d) ==
    /\ fbPc[1] = "idle"
    /\ now + d <= LateLast
    /\ now' = now + d
    /\ fbPc' = [fbPc EXCEPT ![1] = "select"]
    /\ fbLoc' = [fbLoc EXCEPT ![1] = [FbIdle EXCEPT !.offset = users.timezone_offset]]
    /\ UNCHANGED <<doingLoc, user_events, evPc, evLoc, stuckPc, stuckLoc, cron, serverOffset, users, tasks, user_stats, calls, start,
                   remPc, remLoc, aggPc, aggLoc, outbox, audit>>

NextLate ==
    \/ \E d \in 1..ReminderCadence : FbSweepAt(d)
    \/ FbSelect(1) \/ FbReserve(1) \/ FbGenerate(1) \/ FbGenerateFails(1)
    \/ FbSend(1) \/ FbSendFails(1) \/ FbWrite(1) \/ FbRollback(1) \/ FbScoldFail(1)

SpecLate == InitLate /\ [][NextLate]_vars

\* C37: feedback coverage: with feedback sweeps at most 5 minutes apart,
\* every task that was reminded becomes praised or scolded on its own local
\* date, whatever its time of day, the last minutes before local midnight
\* included: once the task's date is over, it is praised or scolded.
FeedbackCoverage ==
    \A t \in TaskIds :
        (/\ fbPc[1] = "idle"
         /\ tasks[t].reminder_sent
         /\ getUserDate(users.timezone_offset) > tasks[t].task_date)
            => (tasks[t].praised \/ tasks[t].scolded)

(* ------ specification: sweeps after the reset, with /timezone ---------- *)

\* the offsets the user sets with /timezone: UTC and one hour behind it
AfterResetOffsets == { 0, -60 }

\* one task a day, planned for 23:30
AfterResetTasks ==
    [t \in TaskIds |-> NewTask(t, << 23, 30 >>, StudyGo)]

\* per day: 23:30 UTC, and 00:00 and 00:30 UTC of the next day
AfterResetClock ==
    { At(d, 23, 30) : d \in 1..MaxDay } \cup { At(d + 1, 0, 0) : d \in 1..MaxDay }
    \cup { At(d + 1, 0, 30) : d \in 1..MaxDay }

InitAfterReset ==
    /\ InitHandlers
    /\ now = At(1, 23, 30)
    /\ users = NewUser
    /\ tasks = AfterResetTasks
    /\ user_stats = NoStats
    /\ InitNoCalls

TickAfterReset ==
    /\ remPc[1] = "idle"
    /\ TickIn(AfterResetClock)
    /\ UNCHANGED <<doingLoc, user_events, evPc, evLoc, stuckPc, stuckLoc, cron, serverOffset, users, tasks, user_stats, calls, start,
                   remPc, remLoc, fbPc, fbLoc, aggPc, aggLoc, outbox, audit>>

\* the reminder route is called; the run ends once a task was claimed twice
AfterResetSweep ==
    /\ \A t \in TaskIds : audit.claims[t] <= 1
    /\ RemBegin(1)

NextAfterReset ==
    \/ AfterResetSweep \/ RemClaim(1) \/ RemSend(1) \/ RemSendFails(1)
    \/ DailyReset
    \/ \E offset \in AfterResetOffsets : Timezone(offset)
    \/ TickAfterReset

SpecAfterReset == InitAfterReset /\ [][NextAfterReset]_vars

\* task t was claimed by a reminder sweep and is unreminded again: only the
\* daily reset writes reminder_sent = false, so the reset has cleared it
wasReset(t) == audit.claims[t] >= 1 /\ ~tasks[t].reminder_sent

\* C38: after the daily reset has cleared a task (its date being strictly
\* before the user's local date), that task is never again claimed by the
\* reminder sweep nor evaluated by the feedback sweep, under any later
\* sequence of operations, /timezone changes included.
ResetTaskNotSweptAgain ==
    [][\A t \in TaskIds :
          wasReset(t) => /\ ~tasks'[t].reminder_sent
                         /\ \A i \in Sweepers : ~fbHolds(i, t)']_vars

(* ------ specification: overlapping summaries during a feedback sweep --- *)

\* one task a day, planned for 22:57; the task of day 1 has been reminded and
\* the user has answered it with a matching reply
OverlapTasks ==
    [t \in TaskIds |->
        IF t = 1 THEN [NewTask(1, << 22, 57 >>, StudyGo) EXCEPT
                          !.reminder_sent = TRUE, !.user_response = ResponseOf(GoStudy)]
        ELSE NewTask(t, << 22, 57 >>, StudyGo)]

\* 23:00 of day 1, when the feedback sweep and the summary are both due, and
\* five minutes later
OverlapClock == { At(1, 23, 0), At(1, 23, 5) }

InitOverlap ==
    /\ InitHandlers
    /\ now = At(1, 23, 0)
    /\ users = NewUser
    /\ tasks = OverlapTasks
    /\ user_stats = NoStats
    /\ InitNoCalls

TickOverlap ==
    /\ fbPc[1] = "idle"
    /\ TickIn(OverlapClock)
    /\ UNCHANGED <<doingLoc, user_events, evPc, evLoc, stuckPc, stuckLoc, cron, serverOffset, users, tasks, user_stats, calls, start,
                   remPc, remLoc, fbPc, fbLoc, aggPc, aggLoc, outbox, audit>>

\* the summary route is called while the day's summary has not been delivered
OverlapSummary(i) ==
    /\ outbox.summaries[getUserDate(users.timezone_offset)] = 0
    /\ AggBegin(i)

NextOverlap ==
    \/ FbBegin(1) \/ FbSelect(1) \/ FbReserve(1) \/ FbGenerate(1) \/ FbGenerateFails(1)
    \/ FbSend(1) \/ FbSendFails(1) \/ FbWrite(1) \/ FbRollback(1) \/ FbScoldFail(1)
    \/ \E i \in Sweepers :
          \/ OverlapSummary(i) \/ AggCount(i) \/ AggStats(i) \/ AggWrite(i) \/ AggReserve(i)
          \/ AggGenerate(i) \/ AggGenerateFails(i) \/ AggSend(i) \/ AggSendFails(i)
          \/ AggRollback(i) \/ AggSendBase(i) \/ AggSendBaseFails(i)
    \/ TickOverlap

SpecOverlap == InitOverlap /\ [][NextOverlap]_vars

====
